---- MODULE Spec2Model ----
(***************************************************************************)
(* A model of the config linter of cli-configurator.                       *)
(*                                                                         *)
(* The linter core (package linter: LintBytes, parseConfig, the three      *)
(* validators and their helpers) is the Go code stored in                  *)
(* src/frontend/src/App.tsx, lines 425-819.  Its two callers are the HTTP  *)
(* handler handleLint (src/cmd/server/main.go) and the CLI lintOne         *)
(* (src/unnamed/part_002).                                                 *)
(*                                                                         *)
(* Text is modelled as TLA+ strings, handled character by character with   *)
(* Len, SubSeq and \o, so that trimming, quote stripping, key/value        *)
(* splitting and integer parsing are computed as the code computes them.   *)
(* The byte input of one lint call is the sequence of its lines, as        *)
(* bufio.Scanner hands them to the loop of parseConfig.                    *)
(***************************************************************************)
EXTENDS Integers, Sequences, FiniteSets, TLC

VARIABLES
    data,            \* data[c]: the input of call c, as its sequence of lines
    pc,              \* pc[c]: where call c stands
    lineNo,          \* lineNo[c]: parseConfig's line counter
    section,         \* section[c]: parseConfig's current section ("" = none)
    currentFeature,  \* currentFeature[c]: parseConfig's pending feature entry
    cfg,             \* cfg[c]: the parsedConfig being built, then validated
    issues,          \* issues[c]: the issue list LintBytes builds and returns
    resp,            \* resp[c]: what the caller made of the issues
    err,             \* err[c]: the error LintBytes returns ("" = nil)
    req,             \* req[c]: the HTTP request that call c serves
    keyEnv,          \* the text of CONFIG_LINTER_API_KEY
    apiKeys,         \* Config.APIKeys, as loadConfig built it
    hist,            \* hist[c]: the stages of the server that request c has entered
    args,            \* flag.Args(): the files named on the command line
    argIdx,          \* how many of them main's loop has finished
    flags,           \* the CLI's package-level strict and fixSuggestions
    exitCode,        \* main's exitCode
    stdout,          \* the lines the CLI wrote to os.Stdout
    stderr,          \* the lines the CLI wrote to os.Stderr
    exitStatus,      \* the status the process exited with (-1 = still running)
    cliPc            \* where main stands

serverVars == <<req, keyEnv, apiKeys, hist>>

cliVars == <<args, argIdx, flags, exitCode, stdout, stderr, exitStatus, cliPc>>

vars == <<data, pc, lineNo, section, currentFeature, cfg, issues, resp, err,
          serverVars, cliVars>>

(***************************************************************************)
(* Lint calls.  Every call owns its scanner and validator state, as the    *)
(* locals of parseConfig and LintBytes are per call.                       *)
(***************************************************************************)
Calls == {1, 2}

-----------------------------------------------------------------------------
(***************************************************************************)
(* Strings, character by character.                                        *)
(***************************************************************************)
Char(s, i) == SubSeq(s, i, i)

Rest(s, i) == SubSeq(s, i, Len(s))

MinOf(S) == CHOOSE x \in S : \A y \in S : x <= y

\* The characters strings.TrimSpace removes (the ASCII ones).
WhiteSpace == {" ", "\t", "\n", "\r", "\f"}

\* strings.Trim(s, cutset): s without its leading and trailing characters
\* that are in cutset.
RECURSIVE TrimLeft(_, _)
TrimLeft(s, cutset) ==
    IF s # "" /\ Char(s, 1) \in cutset THEN TrimLeft(Rest(s, 2), cutset) ELSE s

RECURSIVE TrimRight(_, _)
TrimRight(s, cutset) ==
    IF s # "" /\ Char(s, Len(s)) \in cutset
    THEN TrimRight(SubSeq(s, 1, Len(s) - 1), cutset)
    ELSE s

Trim(s, cutset) == TrimRight(TrimLeft(s, cutset), cutset)

TrimSpace(s) == Trim(s, WhiteSpace)

HasPrefix(s, p) == Len(s) >= Len(p) /\ SubSeq(s, 1, Len(p)) = p

HasSuffix(s, p) == Len(s) >= Len(p) /\ SubSeq(s, Len(s) - Len(p) + 1, Len(s)) = p

\* strings.TrimPrefix / strings.TrimSuffix remove one occurrence.
TrimPrefix(s, p) == IF HasPrefix(s, p) THEN Rest(s, Len(p) + 1) ELSE s

TrimSuffix(s, p) == IF HasSuffix(s, p) THEN SubSeq(s, 1, Len(s) - Len(p)) ELSE s

\* strings.Index(s, ch) for a one-character ch, 1-based; 0 when absent
\* (the code's -1).
Index(s, ch) ==
    LET at == {i \in 1..Len(s) : Char(s, i) = ch}
    IN  IF at = {} THEN 0 ELSE MinOf(at)

UpperLetters == "ABCDEFGHIJKLMNOPQRSTUVWXYZ"

LowerLetters == "abcdefghijklmnopqrstuvwxyz"

LowerChar(ch) ==
    LET at == Index(UpperLetters, ch)
    IN  IF at = 0 THEN ch ELSE Char(LowerLetters, at)

RECURSIVE ToLower(_)
ToLower(s) == IF s = "" THEN "" ELSE LowerChar(Char(s, 1)) \o ToLower(Rest(s, 2))

Digits == "0123456789"

IsDigit(ch) == Index(Digits, ch) > 0

DigitVal(ch) == Index(Digits, ch) - 1

RECURSIVE DigitsVal(_, _)
DigitsVal(s, acc) ==
    IF s = "" THEN acc ELSE DigitsVal(Rest(s, 2), acc * 10 + DigitVal(Char(s, 1)))

\* strconv.Atoi(s): an optional sign, then one or more decimal digits and
\* nothing else.  ok is err == nil.  (The texts of this model are a few
\* digits long, so Atoi's range error cannot occur.)
Atoi(s) ==
    LET signed == s # "" /\ Char(s, 1) \in {"+", "-"}
        body   == IF signed THEN Rest(s, 2) ELSE s
        ok     == body # "" /\ \A i \in 1..Len(body) : IsDigit(Char(body, i))
        mag    == IF ok THEN DigitsVal(body, 0) ELSE 0
    IN  [ok |-> ok, n |-> IF signed /\ Char(s, 1) = "-" THEN 0 - mag ELSE mag]

-----------------------------------------------------------------------------
(***************************************************************************)
(* The linter's constants, types and helpers.                              *)
(***************************************************************************)
SeverityError == "error"

SeverityWarning == "warn"

defaultTimeout == 30

allowedEnvironments == <<"dev", "staging", "prod">>

\* A Go map[string]fieldInfo is a function from its keys.
EmptyMap == [k \in {} |-> [Value |-> "", Line |-> 0]]

MapLen(m) == Cardinality(DOMAIN m)

MapPut(m, k, v) == [x \in DOMAIN m \cup {k} |-> IF x = k THEN v ELSE m[x]]

\* v, ok := m[k]: the zero fieldInfo when k is absent.
MapGet(m, k) == IF k \in DOMAIN m THEN m[k] ELSE [Value |-> "", Line |-> 0]

fieldInfo(value, line) == [Value |-> value, Line |-> line]

\* featureEntry{}: nil Fields (length 0) and Line 0.
featureEntryZero == [Fields |-> EmptyMap, Line |-> 0]

\* featureEntry{Fields: make(map[string]fieldInfo), Line: lineNo}
featureEntryAt(line) == [Fields |-> EmptyMap, Line |-> line]

\* The parsedConfig parseConfig starts from.
parsedConfigNew ==
    [Metadata |-> EmptyMap, MetadataLine |-> 0,
     Settings |-> EmptyMap, SettingsLine |-> 0,
     Features |-> <<>>, FeaturesLine |-> 0]

Issue(line, severity, message, fix) ==
    [Line |-> line, Severity |-> severity, Message |-> message, SuggestedFix |-> fix]

isPositiveIntNoZeroTest(value) ==
    IF value = "" THEN FALSE ELSE Atoi(value).ok

isPositiveInt(value) ==
    IF value = "" THEN FALSE
    ELSE IF ~Atoi(value).ok \/ value = "0" THEN FALSE
    ELSE TRUE

\* The test without the lowering of the text.
isBoolExactCase(value) ==
    LET v == TrimSpace(value)
    IN  v = "true" \/ v = "false"

isBool(value) ==
    LET v == ToLower(TrimSpace(value))
    IN  v = "true" \/ v = "false"

\* Membership that ignores the case of the value.
containsFold(list, value) == \E i \in 1..Len(list) : list[i] = ToLower(value)

contains(list, value) == \E i \in 1..Len(list) : list[i] = value

\* strings.Join(list, ", ")
RECURSIVE Join(_, _)
Join(list, sep) ==
    IF list = <<>> THEN ""
    ELSE IF Len(list) = 1 THEN list[1]
    ELSE list[1] \o sep \o Join(Tail(list), sep)

\* fmt's %q of a text without quotes, backslashes or control characters.
Quoted(s) == "\"" \o s \o "\""

parseKeyValueKeepingQuotes(line) ==
    LET idx == Index(line, ":")
    IN  IF idx = 0 THEN [key |-> "", value |-> "", hasValue |-> FALSE]
        ELSE LET key   == TrimSpace(SubSeq(line, 1, idx - 1))
                 value == TrimSpace(Rest(line, idx + 1))
             IN  [key |-> key,
                  value |-> IF value = "{" \/ value = "[" THEN "" ELSE value,
                  hasValue |-> TRUE]

\* parseKeyValue(line) = (key, value, hasValue)
parseKeyValue(line) ==
    LET idx == Index(line, ":")
    IN  IF idx = 0 THEN [key |-> "", value |-> "", hasValue |-> FALSE]
        ELSE LET key   == Trim(TrimSpace(SubSeq(line, 1, idx - 1)), {"\"", "'"})
                 value == Trim(TrimSpace(Rest(line, idx + 1)), {"\"", "'"})
             IN  [key |-> key,
                  value |-> IF value = "{" \/ value = "[" THEN "" ELSE value,
                  hasValue |-> TRUE]

-----------------------------------------------------------------------------
(***************************************************************************)
(* parseConfig: one pass of its loop body over one line.  The scanner      *)
(* state st is the record of the loop's locals: section, currentFeature    *)
(* and cfg.                                                                *)
(***************************************************************************)
\* cfg.Features = append(cfg.Features, currentFeature)
appendFeature(st) ==
    [st EXCEPT !.cfg.Features = Append(@, st.currentFeature)]

\* A closing brace that appends the pending entry and leaves it pending.
closeFeatureKeepsPending(st) ==
    IF MapLen(st.currentFeature.Fields) > 0 THEN appendFeature(st) ELSE st

\* Lines 516-519 and 551-554: a closing brace appends a pending entry that
\* has fields and resets it to the zero entry.
closeFeature(st) ==
    IF MapLen(st.currentFeature.Fields) > 0
    THEN [appendFeature(st) EXCEPT !.currentFeature = featureEntryZero]
    ELSE st

\* An entry start that appends the pending entry whether or not it has
\* fields.
openFeatureAppendsPending(st, n) ==
    [appendFeature(st) EXCEPT !.currentFeature = featureEntryAt(n)]

\* An entry start that opens the new entry without appending the pending
\* one.
openFeatureDropsPending(st, n) == [st EXCEPT !.currentFeature = featureEntryAt(n)]

\* Lines 525-531 and 538-544: an entry start appends a pending entry that
\* has fields and opens a new one anchored at this line.
openFeature(st, n) ==
    [(IF MapLen(st.currentFeature.Fields) > 0 THEN appendFeature(st) ELSE st)
        EXCEPT !.currentFeature = featureEntryAt(n)]

\* Lines 523-557: what the features section does with a line before it is
\* read as key: value.  done is the code's continue.
featureMarkers(st, clean, n) ==
    LET dash   == HasPrefix(clean, "-")
        st1    == IF dash THEN openFeature(st, n) ELSE st
        clean1 == IF dash THEN TrimSpace(TrimPrefix(clean, "-")) ELSE clean
    IN  IF dash /\ clean1 = "" THEN [st |-> st1, clean |-> clean1, done |-> TRUE]
        ELSE LET brace  == HasPrefix(clean1, "{")
                 st2    == IF brace THEN openFeature(st1, n) ELSE st1
                 clean2 == IF brace THEN TrimSpace(TrimPrefix(clean1, "{")) ELSE clean1
             IN  IF brace /\ clean2 = "" THEN [st |-> st2, clean |-> clean2, done |-> TRUE]
                 ELSE IF clean2 = "}" THEN [st |-> closeFeature(st2), clean |-> clean2, done |-> TRUE]
                 ELSE [st |-> st2, clean |-> clean2, done |-> FALSE]

\* The keys of the two switches of lines 564-594.  parseKeyValue has
\* already stripped the quotes of a quoted key.
isSectionKey(key) == key \in {"metadata", "settings", "features"}

\* A header that leaves the features section closing the pending entry.
switchSectionClosesEntry(st, key, n) ==
    LET st1 == IF st.section = "features" /\ key # "features" THEN closeFeature(st) ELSE st
    IN  IF key = "metadata" THEN [st1 EXCEPT !.section = "metadata", !.cfg.MetadataLine = n]
        ELSE IF key = "settings"
        THEN [st1 EXCEPT !.section = "settings", !.cfg.SettingsLine = n]
        ELSE [st1 EXCEPT !.section = "features", !.cfg.FeaturesLine = n]

\* Lines 564-594: a section key switches the section and records the line.
switchSection(st, key, n) ==
    IF key = "metadata" THEN [st EXCEPT !.section = "metadata", !.cfg.MetadataLine = n]
    ELSE IF key = "settings" THEN [st EXCEPT !.section = "settings", !.cfg.SettingsLine = n]
    ELSE [st EXCEPT !.section = "features", !.cfg.FeaturesLine = n]

\* A field met before any section header stored in metadata.
storeFieldTopLevelInMetadata(st, kv, n) ==
    IF st.section = "metadata" \/ st.section = "" THEN
        IF kv.hasValue
        THEN [st EXCEPT !.cfg.Metadata = MapPut(@, kv.key, fieldInfo(kv.value, n))]
        ELSE st
    ELSE IF st.section = "settings" THEN
        IF kv.hasValue
        THEN [st EXCEPT !.cfg.Settings = MapPut(@, kv.key, fieldInfo(kv.value, n))]
        ELSE st
    ELSE IF st.section = "features" THEN
        IF ~kv.hasValue THEN st
        ELSE LET cur == IF MapLen(st.currentFeature.Fields) = 0
                        THEN featureEntryAt(n)
                        ELSE st.currentFeature
             IN  [st EXCEPT !.currentFeature =
                     [cur EXCEPT !.Fields = MapPut(@, kv.key, fieldInfo(kv.value, n))]]
    ELSE st

\* A field stored only where its key is not yet in the mapping.
storeFieldKeepsFirst(st, kv, n) ==
    IF st.section = "metadata" THEN
        IF kv.hasValue /\ kv.key \notin DOMAIN st.cfg.Metadata
        THEN [st EXCEPT !.cfg.Metadata = MapPut(@, kv.key, fieldInfo(kv.value, n))]
        ELSE st
    ELSE IF st.section = "settings" THEN
        IF kv.hasValue /\ kv.key \notin DOMAIN st.cfg.Settings
        THEN [st EXCEPT !.cfg.Settings = MapPut(@, kv.key, fieldInfo(kv.value, n))]
        ELSE st
    ELSE IF st.section = "features" THEN
        IF ~kv.hasValue THEN st
        ELSE LET cur == IF MapLen(st.currentFeature.Fields) = 0
                        THEN featureEntryAt(n)
                        ELSE st.currentFeature
             IN  [st EXCEPT !.currentFeature =
                     [cur EXCEPT !.Fields = MapPut(@, kv.key, fieldInfo(kv.value, n))]]
    ELSE st

\* Lines 596-621: a key: value line is stored by the current section.
storeField(st, kv, n) ==
    IF st.section = "metadata" THEN
        IF kv.hasValue
        THEN [st EXCEPT !.cfg.Metadata = MapPut(@, kv.key, fieldInfo(kv.value, n))]
        ELSE st
    ELSE IF st.section = "settings" THEN
        IF kv.hasValue
        THEN [st EXCEPT !.cfg.Settings = MapPut(@, kv.key, fieldInfo(kv.value, n))]
        ELSE st
    ELSE IF st.section = "features" THEN
        IF ~kv.hasValue THEN st
        ELSE LET cur == IF MapLen(st.currentFeature.Fields) = 0
                        THEN featureEntryAt(n)
                        ELSE st.currentFeature
             IN  [st EXCEPT !.currentFeature =
                     [cur EXCEPT !.Fields = MapPut(@, kv.key, fieldInfo(kv.value, n))]]
    ELSE st

\* Lines 559-621.
\* A section key taken as a header only where no feature entry is pending.
keyValueLineHeaderAtTopLevel(st, clean, n) ==
    LET kv == parseKeyValue(clean)
    IN  IF kv.key = "" THEN st
        ELSE IF isSectionKey(kv.key)
                /\ ~(st.section = "features" /\ MapLen(st.currentFeature.Fields) > 0)
        THEN switchSection(st, kv.key, n)
        ELSE storeField(st, kv, n)

\* A section key taken as a header only where nothing follows the colon.
keyValueLineHeaderNeedsBareKey(st, clean, n) ==
    LET kv == parseKeyValue(clean)
    IN  IF kv.key = "" THEN st
        ELSE IF isSectionKey(kv.key) /\ kv.value = "" THEN switchSection(st, kv.key, n)
        ELSE storeField(st, kv, n)

keyValueLine(st, clean, n) ==
    LET kv == parseKeyValue(clean)
    IN  IF kv.key = "" THEN st
        ELSE IF isSectionKey(kv.key) THEN switchSection(st, kv.key, n)
        ELSE storeField(st, kv, n)

\* The loop body with a comment recognised only at the first column and a
\* blank line only where it has no character.
processLineCommentAtColumnZero(st, line, n) ==
    LET trimmed == TrimSpace(line)
    IN  IF line = "" \/ HasPrefix(line, "#") THEN st
        ELSE LET clean == TrimSpace(TrimSuffix(trimmed, ","))
             IN  IF clean \in {"{", "}", "[", "]"} THEN
                     IF st.section = "features" /\ clean = "}" THEN closeFeature(st) ELSE st
                 ELSE IF st.section = "features" THEN
                     LET m == featureMarkers(st, clean, n)
                     IN  IF m.done THEN m.st ELSE keyValueLine(m.st, m.clean, n)
                 ELSE keyValueLine(st, clean, n)

\* The loop body without the removal of a trailing comma.
processLineKeepsComma(st, line, n) ==
    LET trimmed == TrimSpace(line)
    IN  IF trimmed = "" \/ HasPrefix(trimmed, "#") THEN st
        ELSE LET clean == TrimSpace(trimmed)
             IN  IF clean \in {"{", "}", "[", "]"} THEN
                     IF st.section = "features" /\ clean = "}" THEN closeFeature(st) ELSE st
                 ELSE IF st.section = "features" THEN
                     LET m == featureMarkers(st, clean, n)
                     IN  IF m.done THEN m.st ELSE keyValueLine(m.st, m.clean, n)
                 ELSE keyValueLine(st, clean, n)

\* Lines 505-621: the loop body, for the line numbered n.
processLine(st, line, n) ==
    LET trimmed == TrimSpace(line)
    IN  IF trimmed = "" \/ HasPrefix(trimmed, "#") THEN st
        ELSE LET clean == TrimSpace(TrimSuffix(trimmed, ","))
             IN  IF clean \in {"{", "}", "[", "]"} THEN
                     IF st.section = "features" /\ clean = "}" THEN closeFeature(st) ELSE st
                 ELSE IF st.section = "features" THEN
                     LET m == featureMarkers(st, clean, n)
                     IN  IF m.done THEN m.st ELSE keyValueLine(m.st, m.clean, n)
                 ELSE keyValueLine(st, clean, n)

\* Lines 624-626: the pending entry is appended at the end of the input.
endOfInput(st) ==
    IF MapLen(st.currentFeature.Fields) > 0 THEN appendFeature(st) ELSE st

-----------------------------------------------------------------------------
(***************************************************************************)
(* The validators: each returns the issues it appends, in order.           *)
(***************************************************************************)
baseLineOfNoFallback(sectionLine) == sectionLine

\* baseLine := cfg.XLine; if baseLine == 0 { baseLine = 1 }
baseLineOf(sectionLine) == IF sectionLine = 0 THEN 1 ELSE sectionLine

validateMetadataNoReturn(c) ==
    LET baseLine == baseLineOf(c.MetadataLine)
        name     == MapGet(c.Metadata, "name")
        env      == MapGet(c.Metadata, "env")
    IN  (IF MapLen(c.Metadata) = 0
         THEN <<Issue(baseLine, SeverityError, "missing metadata section",
                      "Add a 'metadata' mapping with 'name' and 'env' fields")>>
         ELSE <<>>)
        \o
        (IF name.Value = ""
         THEN <<Issue(IF name.Line = 0 THEN baseLine ELSE name.Line, SeverityError,
                      "metadata.name is required",
                      "Set metadata.name to a non-empty identifier, e.g. metadata.name: my-service")>>
         ELSE <<>>)
        \o
        (IF env.Value = ""
         THEN <<Issue(IF env.Line = 0 THEN baseLine ELSE env.Line, SeverityError,
                      "metadata.env is required",
                      "Set metadata.env to one of: " \o Join(allowedEnvironments, ", "))>>
         ELSE <<>>)

validateMetadata(c) ==
    LET baseLine == baseLineOf(c.MetadataLine)
        hasName  == "name" \in DOMAIN c.Metadata
        name     == MapGet(c.Metadata, "name")
        hasEnv   == "env" \in DOMAIN c.Metadata
        env      == MapGet(c.Metadata, "env")
    IN  IF MapLen(c.Metadata) = 0
        THEN <<Issue(baseLine, SeverityError, "missing metadata section",
                     "Add a 'metadata' mapping with 'name' and 'env' fields")>>
        ELSE
          (IF ~hasName \/ name.Value = ""
           THEN <<Issue(IF name.Line = 0 THEN baseLine ELSE name.Line, SeverityError,
                        "metadata.name is required",
                        "Set metadata.name to a non-empty identifier, e.g. metadata.name: my-service")>>
           ELSE <<>>)
          \o
          (IF ~hasEnv \/ env.Value = ""
           THEN <<Issue(IF env.Line = 0 THEN baseLine ELSE env.Line, SeverityError,
                        "metadata.env is required",
                        "Set metadata.env to one of: " \o Join(allowedEnvironments, ", "))>>
           ELSE IF ~contains(allowedEnvironments, env.Value)
           THEN <<Issue(env.Line, SeverityWarning,
                        "metadata.env value " \o Quoted(env.Value) \o " is not recognized",
                        "Use one of: " \o Join(allowedEnvironments, ", "))>>
           ELSE <<>>)

\* fmt.Sprintf("%d", n) for the one number the linter prints.
RECURSIVE FormatInt(_)
FormatInt(n) ==
    IF n < 10 THEN Char(Digits, n + 1)
    ELSE FormatInt(n \div 10) \o Char(Digits, (n % 10) + 1)

validateSettingsNoElse(c) ==
    LET baseLine    == baseLineOf(c.SettingsLine)
        hasReplicas == "replicas" \in DOMAIN c.Settings
        replicas    == MapGet(c.Settings, "replicas")
        hasTimeout  == "timeout" \in DOMAIN c.Settings
        timeout     == MapGet(c.Settings, "timeout")
    IN  IF MapLen(c.Settings) = 0
        THEN <<Issue(baseLine, SeverityError, "missing settings section",
                     "Add a 'settings' mapping with 'replicas' and 'timeout'")>>
        ELSE
          (IF ~hasReplicas
           THEN <<Issue(baseLine, SeverityError, "settings.replicas is required",
                        "Add settings.replicas: 1")>>
           ELSE IF ~isPositiveInt(replicas.Value)
           THEN <<Issue(replicas.Line, SeverityError,
                        "settings.replicas must be a positive integer", "")>>
           ELSE <<>>)
          \o
          (IF ~hasTimeout
           THEN <<Issue(baseLine, SeverityWarning,
                        "settings.timeout is missing; defaulting to 30",
                        "Add settings.timeout: " \o FormatInt(defaultTimeout))>>
           ELSE <<>>)
          \o
          (IF ~isPositiveInt(timeout.Value)
           THEN <<Issue(baseLineOf(timeout.Line), SeverityWarning,
                        "settings.timeout should be a positive integer", "")>>
           ELSE <<>>)

\* validateSettings, lines 716-763.
validateSettings(c) ==
    LET baseLine    == baseLineOf(c.SettingsLine)
        hasReplicas == "replicas" \in DOMAIN c.Settings
        replicas    == MapGet(c.Settings, "replicas")
        hasTimeout  == "timeout" \in DOMAIN c.Settings
        timeout     == MapGet(c.Settings, "timeout")
    IN  IF MapLen(c.Settings) = 0
        THEN <<Issue(baseLine, SeverityError, "missing settings section",
                     "Add a 'settings' mapping with 'replicas' and 'timeout'")>>
        ELSE
          (IF ~hasReplicas
           THEN <<Issue(baseLine, SeverityError, "settings.replicas is required",
                        "Add settings.replicas: 1")>>
           ELSE IF ~isPositiveInt(replicas.Value)
           THEN <<Issue(replicas.Line, SeverityError,
                        "settings.replicas must be a positive integer", "")>>
           ELSE <<>>)
          \o
          (IF ~hasTimeout
           THEN <<Issue(baseLine, SeverityWarning,
                        "settings.timeout is missing; defaulting to 30",
                        "Add settings.timeout: " \o FormatInt(defaultTimeout))>>
           ELSE IF ~isPositiveInt(timeout.Value)
           THEN <<Issue(timeout.Line, SeverityWarning,
                        "settings.timeout should be a positive integer", "")>>
           ELSE <<>>)

\* The body of validateFeatures' loop, for one entry.
validateFeature(feature) ==
    IF MapLen(feature.Fields) = 0
    THEN <<Issue(feature.Line, SeverityWarning,
                 "each feature entry should be a mapping", "")>>
    ELSE
      (IF "name" \notin DOMAIN feature.Fields \/ feature.Fields["name"].Value = ""
       THEN <<Issue(feature.Line, SeverityWarning, "feature entry missing name",
                    "Add name: <feature-name>")>>
       ELSE <<>>)
      \o
      (IF "enabled" \notin DOMAIN feature.Fields \/ ~isBool(feature.Fields["enabled"].Value)
       THEN <<Issue(feature.Line, SeverityWarning,
                    "feature enabled should be true or false", "")>>
       ELSE <<>>)

RECURSIVE validateFeaturesFrom(_, _)
validateFeaturesFrom(features, i) ==
    IF i > Len(features) THEN <<>>
    ELSE validateFeature(features[i]) \o validateFeaturesFrom(features, i + 1)

validateFeatures(c) == validateFeaturesFrom(c.Features, 1)

-----------------------------------------------------------------------------
(***************************************************************************)
(* The callers' fatal decision.                                            *)
(***************************************************************************)
\* handleLint, lines 173-179: the loop stops at the first fatal issue.
RECURSIVE handleLintFatalFrom(_, _, _)
handleLintFatalFrom(iss, strict, i) ==
    IF i > Len(iss) THEN FALSE
    ELSE IF iss[i].Severity = SeverityError
            \/ (strict /\ iss[i].Severity = SeverityWarning)
    THEN TRUE
    ELSE handleLintFatalFrom(iss, strict, i + 1)

handleLintFatal(iss, strict) == handleLintFatalFrom(iss, strict, 1)

\* lintOne, lines 62-71: the loop prints every issue and never stops early.
RECURSIVE lintOneLoop(_, _, _, _)
lintOneLoop(iss, strict, i, fatal) ==
    IF i > Len(iss) THEN fatal
    ELSE lintOneLoop(iss, strict, i + 1,
                     IF iss[i].Severity = SeverityError
                        \/ (strict /\ iss[i].Severity = SeverityWarning)
                     THEN TRUE ELSE fatal)

lintOneFatalIgnoringStrict(iss, strict) == lintOneLoop(iss, FALSE, 1, FALSE)

\* lintOne, lines 56-73.
lintOneFatal(iss, strict) ==
    IF Len(iss) = 0 THEN FALSE ELSE lintOneLoop(iss, strict, 1, FALSE)

\* lintOne, line 63, and lines 64-66.
issueLine(path, issue) ==
    "  " \o path \o ":" \o FormatInt(issue.Line) \o " [" \o issue.Severity \o "] "
         \o issue.Message

fixLine(issue) == "    Fix suggestion: " \o issue.SuggestedFix

\* The loop of lintOne leaving at the first error issue.
RECURSIVE lintOnePrintsUntilError(_, _, _, _)
lintOnePrintsUntilError(path, iss, fix, i) ==
    IF i > Len(iss) THEN <<>>
    ELSE <<issueLine(path, iss[i])>>
         \o (IF fix /\ iss[i].SuggestedFix # "" THEN <<fixLine(iss[i])>> ELSE <<>>)
         \o (IF iss[i].Severity = SeverityError THEN <<>>
             ELSE lintOnePrintsUntilError(path, iss, fix, i + 1))

\* lintOne, lines 62-71: what the loop writes to os.Stderr from issue i on.
RECURSIVE lintOnePrints(_, _, _, _)
lintOnePrints(path, iss, fix, i) ==
    IF i > Len(iss) THEN <<>>
    ELSE <<issueLine(path, iss[i])>>
         \o (IF fix /\ iss[i].SuggestedFix # "" THEN <<fixLine(iss[i])>> ELSE <<>>)
         \o lintOnePrints(path, iss, fix, i + 1)

\* lintOne, lines 56-61.
lintOneStdout(path, iss) == IF Len(iss) = 0 THEN <<path \o ": OK">> ELSE <<>>

lintOneStderr(path, iss, fix) ==
    IF Len(iss) = 0 THEN <<>> ELSE <<path \o ":">> \o lintOnePrints(path, iss, fix, 1)

-----------------------------------------------------------------------------
(***************************************************************************)
(* The inputs.                                                             *)
(***************************************************************************)
MaxLines == 4

MaxFeatures == 2

MaxLinesTwice == 3

\* Lines of every kind the scanner tells apart, for the inputs that are
\* arbitrary line sequences.
GeneralLines ==
    {"metadata:", "settings:", "features:",
     "  name: awesome", "  env: unknown", "  replicas: 0", "  replicas: 2",
     "  - enabled: maybe", "}", "# note"}

TwiceLines ==
    {"metadata:", "settings:", "features:", "  name: awesome", "  replicas: 0",
     "  - enabled: maybe"}

SeqsUpTo(S, n) == UNION {[1..k -> S] : k \in 0..n}

GeneralInputs == SeqsUpTo(GeneralLines, MaxLines)

TwiceInputs == SeqsUpTo(TwiceLines, MaxLinesTwice)

\* Value texts for settings.replicas and settings.timeout.
IntTexts == {"0", "-5", "00", "-0", "+0", "", "abc", "1.5", "-", "2", "+5", "10", "007"}

Absent == "<absent>"

\* What precedes the settings section: nothing, a valid metadata section, or
\* a metadata section whose env is not recognized.
SettingsPrefixes ==
    {<<>>,
     <<"metadata:", "  name: awesome", "  env: prod">>,
     <<"metadata:", "  name: awesome", "  env: unknown">>}

SettingsInputs ==
    {pre \o <<"settings:">>
       \o (IF r = Absent THEN <<>> ELSE <<"  replicas: " \o r>>)
       \o (IF t = Absent THEN <<>> ELSE <<"  timeout: " \o t>>)
     : pre \in SettingsPrefixes, r \in IntTexts \cup {Absent}, t \in IntTexts \cup {Absent}}

\* Scenario A, as written in the spec and (after an empty first line) in
\* TestLintConfigErrorsAndWarnings.
ScenarioA ==
    <<"metadata:", "  env: unknown", "settings:", "  replicas: 0", "  timeout: -5",
      "features:", "  - enabled: maybe">>

ScenarioAInputs == {ScenarioA, <<"">> \o ScenarioA}

\* Valid configs, written one key per line under the three section headers,
\* in the YAML form of TestLintConfigValid and in a JSON form (quoted keys
\* and texts, trailing commas, braces and brackets on lines of their own).
ValidNames == {"awesome", "unit-test"}

ValidEnvs == {"dev", "staging", "prod"}

ValidInts == {"1", "60", "+3"}

ValidBools == {"true", "False"}

ValidFeatures == SeqsUpTo(ValidNames \X ValidBools, MaxFeatures)

RECURSIVE yamlFeatures(_)
yamlFeatures(fs) ==
    IF fs = <<>> THEN <<>>
    ELSE <<"  - name: " \o fs[1][1], "    enabled: " \o fs[1][2]>> \o yamlFeatures(Tail(fs))

RECURSIVE jsonFeatures(_)
jsonFeatures(fs) ==
    IF fs = <<>> THEN <<>>
    ELSE <<"    {", "      \"enabled\": " \o fs[1][2] \o ",",
           "      \"name\": \"" \o fs[1][1] \o "\"", "    },">> \o jsonFeatures(Tail(fs))

yamlConfig(name, env, replicas, timeout, fs) ==
    <<"", "metadata:", "  name: " \o name, "  env: " \o env,
      "settings:", "  replicas: " \o replicas, "  timeout: " \o timeout,
      "features:">> \o yamlFeatures(fs)

jsonConfig(name, env, replicas, timeout, fs) ==
    <<"{", "  \"features\": [">> \o jsonFeatures(fs) \o
    <<"  ],", "  \"settings\": {", "    \"timeout\": " \o timeout \o ",",
      "    \"replicas\": " \o replicas, "  },",
      "  \"metadata\": {", "    \"name\": \"" \o name \o "\",",
      "    \"env\": \"" \o env \o "\"", "  }", "}">>

ValidInputs ==
    {yamlConfig(n, e, r, r, fs) : n \in ValidNames, e \in ValidEnvs, r \in ValidInts,
                                  fs \in ValidFeatures}
    \cup
    {jsonConfig(n, e, r, r, fs) : n \in ValidNames, e \in ValidEnvs, r \in ValidInts,
                                  fs \in ValidFeatures}

\* bufio.MaxScanTokenSize, the limit of the Scanner that bufio.NewScanner
\* returns: a line of this many bytes or more fills the buffer before its
\* end is found, Scan returns false and Err returns ErrTooLong.
MaxScanTokenSize == 65536

ErrTooLong == "bufio.Scanner: token too long"

RECURSIVE Doubled(_, _)
Doubled(s, k) == IF k = 0 THEN s ELSE Doubled(s \o s, k - 1)

\* A line of MaxScanTokenSize bytes, and the longest line that still fits.
LongLine == Doubled("x", 16)

FittingLine == "# " \o SubSeq(LongLine, 1, MaxScanTokenSize - 3)

LongInputs ==
    {<<LongLine>>,
     <<FittingLine>>,
     <<"metadata:", LongLine, "  name: awesome">>,
     <<"features:", "  - enabled: maybe", "# " \o LongLine>>,
     ScenarioA \o <<LongLine \o LongLine>>}

\* Section keys in the places a key can stand: at the top, as a field of a
\* feature entry, on the line that opens an entry, quoted, with a value,
\* capitalized; and fields to store.
MaxLinesHeader == 3

HeaderLines ==
    {"features:", "  - name: a", "    metadata: x", "  \"settings\": {",
     "  - 'features': [,", "  env: prod", "Metadata:", "  - settings: 1"}

HeaderScenarios ==
    {<<"features:", "  - name: a", "    metadata: x", "  env: prod", "  - enabled: true">>,
     <<"settings:", "  replicas: 2", "  'metadata': {", "  name: awesome", "  \"settings\":",
       "  timeout: 5">>}

HeaderInputs == SeqsUpTo(HeaderLines, MaxLinesHeader) \cup HeaderScenarios

Inputs ==
    GeneralInputs \cup SettingsInputs \cup ScenarioAInputs \cup ValidInputs \cup LongInputs
        \cup HeaderInputs

-----------------------------------------------------------------------------
(***************************************************************************)
(* The state machine.                                                      *)
(***************************************************************************)
NoResp == [caller |-> "none", status |-> 0, strict |-> FALSE, fatal |-> FALSE]

\* No HTTP request: the call is made directly.
NoReq == [method |-> "", xApiKey |-> "", authorization |-> "", validJSON |-> FALSE,
          Config |-> "", Strict |-> FALSE, FixSuggestions |-> FALSE]

NoFlags == [strict |-> FALSE, fixSuggestions |-> FALSE]

\* No server is running.
NoServer ==
    /\ req = [c \in Calls |-> NoReq]
    /\ keyEnv = ""
    /\ apiKeys = {}
    /\ hist = [c \in Calls |-> <<>>]

\* No command line is being run.
NoCLI ==
    /\ args = <<>>
    /\ argIdx = 0
    /\ flags = NoFlags
    /\ exitCode = 0
    /\ stdout = <<>>
    /\ stderr = <<>>
    /\ exitStatus = -1
    /\ cliPc = "none"

\* The locals of the calls: those in active stand at the given place with
\* input d, the others are not made.  parseConfig, lines 495-502.
Locals(active, d, at) ==
    /\ data = [c \in Calls |-> IF c \in active THEN d[c] ELSE <<>>]
    /\ pc = [c \in Calls |-> IF c \in active THEN at ELSE "idle"]
    /\ lineNo = [c \in Calls |-> 0]
    /\ section = [c \in Calls |-> ""]
    /\ currentFeature = [c \in Calls |-> featureEntryZero]
    /\ cfg = [c \in Calls |-> parsedConfigNew]
    /\ issues = [c \in Calls |-> <<>>]
    /\ resp = [c \in Calls |-> NoResp]
    /\ err = [c \in Calls |-> ""]

\* Direct calls of LintBytes, all with input d.
Start(active, d) ==
    /\ Locals(active, [c \in Calls |-> d], "scan")
    /\ NoServer
    /\ NoCLI

\* One lint call.
Init == \E d \in Inputs : Start({1}, d)

\* Two lint calls on the same input.
InitTwice == \E d \in TwiceInputs \cup LongInputs : Start(Calls, d)

scannerState(c) ==
    [section |-> section[c], currentFeature |-> currentFeature[c], cfg |-> cfg[c]]

\* scanner.Scan() returned a line: one pass of the loop of parseConfig.
ScanLineSharedSection(c) ==
    /\ pc[c] = "scan"
    /\ lineNo[c] < Len(data[c])
    /\ Len(data[c][lineNo[c] + 1]) < MaxScanTokenSize
    /\ LET n  == lineNo[c] + 1
           st == processLine([scannerState(c) EXCEPT !.section = section[1]], data[c][n], n)
       IN  /\ lineNo' = [lineNo EXCEPT ![c] = n]
           /\ section' = [section EXCEPT ![1] = st.section]
           /\ currentFeature' = [currentFeature EXCEPT ![c] = st.currentFeature]
           /\ cfg' = [cfg EXCEPT ![c] = st.cfg]
    /\ UNCHANGED <<data, pc, issues, resp>>
    /\ UNCHANGED <<err, serverVars, cliVars>>

ScanLine(c) ==
    /\ pc[c] = "scan"
    /\ lineNo[c] < Len(data[c])
    /\ Len(data[c][lineNo[c] + 1]) < MaxScanTokenSize
    /\ LET n  == lineNo[c] + 1
           st == processLine(scannerState(c), data[c][n], n)
       IN  /\ lineNo' = [lineNo EXCEPT ![c] = n]
           /\ section' = [section EXCEPT ![c] = st.section]
           /\ currentFeature' = [currentFeature EXCEPT ![c] = st.currentFeature]
           /\ cfg' = [cfg EXCEPT ![c] = st.cfg]
    /\ UNCHANGED <<data, pc, issues, resp>>
    /\ UNCHANGED <<err, serverVars, cliVars>>

\* scanner.Scan() returned false: lines 624-632, parseConfig returns cfg.
ScanEnd(c) ==
    /\ pc[c] = "scan"
    /\ lineNo[c] = Len(data[c])
    /\ LET st == endOfInput(scannerState(c))
       IN  cfg' = [cfg EXCEPT ![c] = st.cfg]
    /\ pc' = [pc EXCEPT ![c] = "validateMetadata"]
    /\ UNCHANGED <<data, lineNo, section, currentFeature, issues, resp>>
    /\ UNCHANGED <<err, serverVars, cliVars>>

\* scanner.Scan() returned false on a line that does not fit its buffer:
\* lines 624-630, parseConfig returns scanner.Err() and LintBytes returns
\* nil and that error (lines 481-484).
ScanTooLong(c) ==
    /\ pc[c] = "scan"
    /\ lineNo[c] < Len(data[c])
    /\ Len(data[c][lineNo[c] + 1]) >= MaxScanTokenSize
    /\ LET st == endOfInput(scannerState(c))
       IN  cfg' = [cfg EXCEPT ![c] = st.cfg]
    /\ err' = [err EXCEPT ![c] = ErrTooLong]
    /\ pc' = [pc EXCEPT ![c] = "failed"]
    /\ UNCHANGED <<data, lineNo, section, currentFeature, issues, resp>>
    /\ UNCHANGED <<serverVars, cliVars>>

\* The call of validateMetadata ending the lint where the metadata section
\* is missing.
ValidateMetadataEndsLint(c) ==
    /\ pc[c] = "validateMetadata"
    /\ issues' = [issues EXCEPT ![c] = @ \o validateMetadata(cfg[c])]
    /\ pc' = [pc EXCEPT ![c] = IF MapLen(cfg[c].Metadata) = 0 THEN "done"
                               ELSE "validateSettings"]
    /\ UNCHANGED <<data, lineNo, section, currentFeature, cfg, resp>>
    /\ UNCHANGED <<err, serverVars, cliVars>>

\* LintBytes, line 487.
ValidateMetadata(c) ==
    /\ pc[c] = "validateMetadata"
    /\ issues' = [issues EXCEPT ![c] = @ \o validateMetadata(cfg[c])]
    /\ pc' = [pc EXCEPT ![c] = "validateSettings"]
    /\ UNCHANGED <<data, lineNo, section, currentFeature, cfg, resp>>
    /\ UNCHANGED <<err, serverVars, cliVars>>

\* validateSettings appending to an issue list that the calls share.
ValidateSettingsSharedIssues(c) ==
    /\ pc[c] = "validateSettings"
    /\ issues' = [issues EXCEPT ![1] = @ \o validateSettings(cfg[c])]
    /\ pc' = [pc EXCEPT ![c] = "validateFeatures"]
    /\ UNCHANGED <<data, lineNo, section, currentFeature, cfg, resp>>
    /\ UNCHANGED <<err, serverVars, cliVars>>

\* LintBytes, line 488.
ValidateSettings(c) ==
    /\ pc[c] = "validateSettings"
    /\ issues' = [issues EXCEPT ![c] = @ \o validateSettings(cfg[c])]
    /\ pc' = [pc EXCEPT ![c] = "validateFeatures"]
    /\ UNCHANGED <<data, lineNo, section, currentFeature, cfg, resp>>
    /\ UNCHANGED <<err, serverVars, cliVars>>

\* Insertion of one issue into a list kept sorted by line.
RECURSIVE insertByLine(_, _)
insertByLine(sorted, x) ==
    IF sorted = <<>> THEN <<x>>
    ELSE IF x.Line < sorted[1].Line THEN <<x>> \o sorted
    ELSE <<sorted[1]>> \o insertByLine(Tail(sorted), x)

RECURSIVE sortByLine(_)
sortByLine(iss) ==
    IF iss = <<>> THEN <<>>
    ELSE insertByLine(sortByLine(SubSeq(iss, 1, Len(iss) - 1)), iss[Len(iss)])

ValidateFeaturesThenSort(c) ==
    /\ pc[c] = "validateFeatures"
    /\ issues' = [issues EXCEPT ![c] = sortByLine(@ \o validateFeatures(cfg[c]))]
    /\ pc' = [pc EXCEPT ![c] = "done"]
    /\ UNCHANGED <<data, lineNo, section, currentFeature, cfg, resp>>
    /\ UNCHANGED <<err, serverVars, cliVars>>

\* LintBytes, lines 489-491: the last validator, then return issues, nil.
ValidateFeatures(c) ==
    /\ pc[c] = "validateFeatures"
    /\ issues' = [issues EXCEPT ![c] = @ \o validateFeatures(cfg[c])]
    /\ pc' = [pc EXCEPT ![c] = "done"]
    /\ UNCHANGED <<data, lineNo, section, currentFeature, cfg, resp>>
    /\ UNCHANGED <<err, serverVars, cliVars>>

\* An answer that carries a status and no issues: w.WriteHeader(status), or
\* writeJSON(w, status, ErrorResponse{...}).
statusResponse(status) ==
    [caller |-> "http", status |-> status, strict |-> FALSE, fatal |-> FALSE]

\* handleLint, lines 172-188: fatal is decided, and the answer is 200 with
\* the issues as LintBytes returned them, the request's strict and fatal.
handleLintResponse(iss, strict) ==
    [caller |-> "http", status |-> 200, issues |-> iss, strict |-> strict,
     fatal |-> handleLintFatal(iss, strict)]

\* req.Strict of the request that call c serves; either value for a call
\* whose request is not given.
requestStrict(c) == IF req[c] = NoReq THEN BOOLEAN ELSE {req[c].Strict}

\* handleLint answering with the suggested fixes only on request.
HandleLintRespondFixesOnRequest(c) ==
    /\ pc[c] = "done"
    /\ \E strict \in requestStrict(c) :
          resp' = [resp EXCEPT ![c] =
                      handleLintResponse(
                          [i \in 1..Len(issues[c]) |->
                              IF req[c].FixSuggestions THEN issues[c][i]
                              ELSE [issues[c][i] EXCEPT !.SuggestedFix = ""]],
                          strict)]
    /\ pc' = [pc EXCEPT ![c] = "returned"]
    /\ UNCHANGED <<data, lineNo, section, currentFeature, cfg, issues>>
    /\ UNCHANGED <<err, serverVars, cliVars>>

\* The HTTP handler, once LintBytes has returned (handleLint, lines 172-188).
HandleLintRespond(c) ==
    /\ pc[c] = "done"
    /\ \E strict \in requestStrict(c) :
          resp' = [resp EXCEPT ![c] = handleLintResponse(issues[c], strict)]
    /\ pc' = [pc EXCEPT ![c] = "returned"]
    /\ UNCHANGED <<data, lineNo, section, currentFeature, cfg, issues>>
    /\ UNCHANGED <<err, serverVars, cliVars>>

\* The -strict flag and the path that lintOne works with; for a call that
\* no command line has made, either value of strict, and nothing is written.
flagStrict == IF cliPc = "none" THEN BOOLEAN ELSE {flags.strict}

lintOnePath == args[argIdx + 1].path

\* The CLI, once LintConfig has returned the issues: lintOne prints them and
\* returns fatal (lintOne, lines 56-73).
LintOneReturn(c) ==
    /\ pc[c] = "done"
    /\ \E strict \in flagStrict :
          resp' = [resp EXCEPT ![c] = [caller |-> "cli", status |-> 0, strict |-> strict,
                                       fatal |-> lintOneFatal(issues[c], strict)]]
    /\ IF cliPc = "none" THEN UNCHANGED <<stdout, stderr>>
       ELSE /\ stdout' = stdout \o lintOneStdout(lintOnePath, issues[c])
            /\ stderr' = stderr \o lintOneStderr(lintOnePath, issues[c],
                                                  flags.fixSuggestions)
    /\ pc' = [pc EXCEPT ![c] = "returned"]
    /\ UNCHANGED <<data, lineNo, section, currentFeature, cfg, issues>>
    /\ UNCHANGED <<err, serverVars, args, argIdx, flags, exitCode, exitStatus, cliPc>>

\* The HTTP handler, once LintBytes has returned an error: it answers 500
\* (handleLint, lines 166-170).
HandleLintError(c) ==
    /\ pc[c] = "failed"
    /\ resp' = [resp EXCEPT ![c] = statusResponse(500)]
    /\ pc' = [pc EXCEPT ![c] = "rejected"]
    /\ UNCHANGED <<data, lineNo, section, currentFeature, cfg, issues>>
    /\ UNCHANGED <<err, serverVars, cliVars>>

\* The CLI, once LintConfig has returned an error: lintOne returns true and
\* the error wrapped with the path (lintOne, lines 52-54).
LintOneError(c) ==
    /\ pc[c] = "failed"
    /\ resp' = [resp EXCEPT ![c] =
                  [caller |-> "cli", status |-> 0, strict |-> FALSE, fatal |-> TRUE,
                   err |-> IF cliPc = "none" THEN err[c] ELSE lintOnePath \o ": " \o err[c]]]
    /\ pc' = [pc EXCEPT ![c] = "rejected"]
    /\ UNCHANGED <<data, lineNo, section, currentFeature, cfg, issues>>
    /\ UNCHANGED <<err, serverVars, cliVars>>

Next ==
    \E c \in Calls :
        \/ ScanLine(c)
        \/ ScanEnd(c)
        \/ ScanTooLong(c)
        \/ ValidateMetadata(c)
        \/ ValidateSettings(c)
        \/ ValidateFeatures(c)
        \/ HandleLintRespond(c)
        \/ LintOneReturn(c)
        \/ HandleLintError(c)
        \/ LintOneError(c)

Spec == Init /\ [][Next]_vars

SpecTwice == InitTwice /\ [][Next]_vars

\* Two simultaneous calls of LintBytes, each with its own input, from entry
\* to return.
MaxLinesEach == 2

EachLines == {"metadata:", "features:", "  name: awesome", "  - enabled: maybe"}

EachInputs == SeqsUpTo(EachLines, MaxLinesEach) \cup LongInputs

InitConcurrent ==
    \E d \in [Calls -> EachInputs] :
        /\ Locals(Calls, d, "scan")
        /\ NoServer
        /\ NoCLI

NextLintBytes ==
    \E c \in Calls :
        \/ ScanLine(c)
        \/ ScanEnd(c)
        \/ ScanTooLong(c)
        \/ ValidateMetadata(c)
        \/ ValidateSettings(c)
        \/ ValidateFeatures(c)

SpecConcurrent == InitConcurrent /\ [][NextLintBytes]_vars

\* One call of LintBytes over inputs made for the scanner: lines that open
\* a nested structure, repeated keys in sections left and re-entered,
\* feature entries begun and closed in every way, and blank, comment and
\* bracket lines between them.
MaxLinesScan == 4

BracketLines ==
    {"metadata:", "settings:", "features:", "  name: {", "  replicas: [", "  tags: [,",
     "  name: a"}

MaxLinesRepeat == 5

RepeatLines == {"metadata:", "settings:", "  name: a", "  name: b", "  replicas: 1"}

InlineLines ==
    {"metadata: {name: awesome, env: prod}", "settings: {replicas: 2, timeout: 30}",
     "features: [{name: a, enabled: true}]", "features: []", "  name: awesome"}

\* What follows an entry left pending: headers that leave and re-enter the
\* features section, a closing brace, and fields without a marker.
PendingLines ==
    {"settings:", "metadata:", "features:", "  },", "    name: b", "    enabled: true"}

PendingInputs ==
    {<<"features:", "  - name: a">> \o t : t \in SeqsUpTo(PendingLines, MaxLinesScan)}

FeatureLines ==
    {"features:", "settings:", "  -", "  - name: a", "    enabled: true", "    name: b",
     "  },", "  - {"}

ScanInputs ==
    SeqsUpTo(BracketLines, MaxLinesScan) \cup SeqsUpTo(RepeatLines, MaxLinesRepeat)
        \cup SeqsUpTo(FeatureLines, MaxLinesScan) \cup SeqsUpTo(InlineLines, MaxLinesScan)
        \cup PendingInputs \cup LongInputs

InitScan == \E d \in ScanInputs : Start({1}, d)

SpecScan == InitScan /\ [][NextLintBytes]_vars

\* One call of LintBytes over inputs made for single lines: blank and
\* comment lines, bare structural lines with and without the trailing comma,
\* and the metadata fields the metadata validator tests.
MaxLinesQuiet == 4

QuietLines ==
    {"metadata:", "features:", "  name: a", "  - name: a", "", " \t", "# metadata:",
     "  # - name: b"}

StructLines ==
    {"metadata:", "features:", "  name: a", "  - name: a", "{", "  },", "  [,", "]"}

MetaLines ==
    {"metadata:", "  name: a", "  name:", "  env: prod", "  env: staging", "  env: dev",
     "  env: Prod", "  env:"}

EntryLines ==
    {"features:", "  -", "  - name: a", "  - name:", "    enabled: true",
     "    enabled: FALSE", "    enabled: maybe", "    enabled: \" True \""}

LineInputs ==
    SeqsUpTo(QuietLines, MaxLinesQuiet) \cup SeqsUpTo(StructLines, MaxLinesQuiet)
        \cup SeqsUpTo(MetaLines, MaxLinesQuiet) \cup SeqsUpTo(EntryLines, MaxLinesQuiet)
        \cup LongInputs

InitLines == \E d \in LineInputs : Start({1}, d)

SpecLines == InitLines /\ [][NextLintBytes]_vars

-----------------------------------------------------------------------------
(***************************************************************************)
(* LintBytes run from its first line to its return by one caller, as a     *)
(* function of its input.                                                  *)
(***************************************************************************)
\* parseConfig, lines 503-632, with n lines scanned.
RECURSIVE parseConfigFrom(_, _, _)
parseConfigFrom(st, lines, n) ==
    IF n = Len(lines) THEN [cfg |-> endOfInput(st).cfg, err |-> ""]
    ELSE IF Len(lines[n + 1]) >= MaxScanTokenSize
    THEN [cfg |-> endOfInput(st).cfg, err |-> ErrTooLong]
    ELSE parseConfigFrom(processLine(st, lines[n + 1], n + 1), lines, n + 1)

parseConfig(lines) ==
    parseConfigFrom([section |-> "", currentFeature |-> featureEntryZero,
                     cfg |-> parsedConfigNew], lines, 0)

\* LintBytes, lines 480-492.
LintBytes(lines) ==
    LET parsed == parseConfig(lines)
    IN  IF parsed.err # "" THEN [issues |-> <<>>, err |-> parsed.err]
        ELSE [issues |-> validateMetadata(parsed.cfg) \o validateSettings(parsed.cfg)
                            \o validateFeatures(parsed.cfg),
              err |-> ""]

-----------------------------------------------------------------------------
(***************************************************************************)
(* The server: main, lines 82-137.  A request to /lint passes withRecovery *)
(* and withLogging, which hand it on as it is, then withCORS, the mux and  *)
(* withAPIKeyAuth before it reaches handleLint.                            *)
(***************************************************************************)
\* strings.Split(s, sep) for a one-character sep.
RECURSIVE Split(_, _)
Split(s, sep) ==
    LET i == Index(s, sep)
    IN  IF i = 0 THEN <<s>>
        ELSE <<SubSeq(s, 1, i - 1)>> \o Split(Rest(s, i + 1), sep)

\* loadConfig, lines 32-39: the set of keys in CONFIG_LINTER_API_KEY.
loadConfigKeys(rawKeys) ==
    LET parts == Split(rawKeys, ",")
    IN  {TrimSpace(parts[i]) : i \in 1..Len(parts)} \ {""}

\* The lines bufio.Scanner cuts []byte(req.Config) into: a line ends at
\* "\n", and what follows the last "\n" is a line unless it is empty.  The
\* "\r" that the scanner drops before "\n" is left on the line: it counts
\* for the buffer limit, and parseConfig begins with TrimSpace, which
\* removes it.
RECURSIVE ScanLines(_)
ScanLines(s) ==
    IF s = "" THEN <<>>
    ELSE LET i == Index(s, "\n")
         IN  IF i = 0 THEN <<s>>
             ELSE <<SubSeq(s, 1, i - 1)>> \o ScanLines(Rest(s, i + 1))

\* withAPIKeyAuth taking the Bearer token before the X-API-Key header.
requestKeyBearerFirst(r) ==
    IF HasPrefix(r.authorization, "Bearer ")
    THEN TrimSpace(TrimPrefix(r.authorization, "Bearer "))
    ELSE r.xApiKey

\* withAPIKeyAuth, lines 252-258: the key the request presents.
requestKey(r) ==
    IF r.xApiKey # "" THEN r.xApiKey
    ELSE IF HasPrefix(r.authorization, "Bearer ")
    THEN TrimSpace(TrimPrefix(r.authorization, "Bearer "))
    ELSE ""

\* The requests.
Methods == {"POST", "OPTIONS", "GET"}

XApiKeys == {"", "secret", "wrong"}

Authorizations ==
    {"", "Bearer secret", "Bearer  other ", "Bearer wrong", "Bearer ", "bearer secret",
     "Basic secret"}

KeyEnvTexts == {"", ",", " , ", "secret", " secret ,other,"}

\* Request bodies' config texts: empty, blank, a config without issues, one
\* with a warning only, one with errors, one with a feature warning and a
\* blank last line, and one with a line beyond the scanner's limit.
ConfigTexts ==
    {"",
     "  \n\t ",
     "metadata:\n  name: awesome\n  env: prod\nsettings:\n  replicas: 2\n  timeout: 30\n",
     "metadata:\n  name: awesome\n  env: qa\nsettings:\n  replicas: 2\n  timeout: 30",
     "settings:\r\n  replicas: 0\r\n",
     "metadata:\n  name: awesome\n  env: dev\nsettings:\n  replicas: 1\nfeatures:\n  - enabled: maybe\n\n",
     "metadata:\n" \o LongLine \o "\n  name: awesome\n"}

\* A body that is not valid JSON leaves the LintRequest at its zero value.
Requests ==
    {r \in [method : Methods, xApiKey : XApiKeys, authorization : Authorizations,
            validJSON : BOOLEAN, Config : ConfigTexts, Strict : BOOLEAN,
            FixSuggestions : BOOLEAN] :
        r.validJSON \/ (r.Config = "" /\ ~r.Strict /\ ~r.FixSuggestions)}

\* The server has started with the keys of rawKeys and has received the
\* requests rs[c] of the calls in active.
StartServer(active, rawKeys, rs) ==
    /\ Locals(active, [c \in Calls |-> <<>>], "received")
    /\ req = [c \in Calls |-> IF c \in active THEN rs[c] ELSE NoReq]
    /\ keyEnv = rawKeys
    /\ apiKeys = loadConfigKeys(rawKeys)
    /\ hist = [c \in Calls |-> <<>>]
    /\ NoCLI

\* One request.
InitServer ==
    \E rawKeys \in KeyEnvTexts, r \in Requests :
        StartServer({1}, rawKeys, [c \in Calls |-> r])

\* An answer is written before the request reached LintBytes.
answer(c, response) ==
    /\ resp' = [resp EXCEPT ![c] = response]
    /\ pc' = [pc EXCEPT ![c] = "responded"]

\* withRecovery, lines 194-204: the outermost layer hands the request on;
\* its deferred function acts on a panic only.
WithRecovery(c) ==
    /\ pc[c] = "received"
    /\ hist' = [hist EXCEPT ![c] = Append(@, "withRecovery")]
    /\ pc' = [pc EXCEPT ![c] = "logging"]
    /\ UNCHANGED <<data, lineNo, section, currentFeature, cfg, issues, resp, err>>
    /\ UNCHANGED <<req, keyEnv, apiKeys, cliVars>>

\* withLogging, lines 207-225: the request is handed on; the log line is
\* written after the answer and changes nothing of it.
WithLogging(c) ==
    /\ pc[c] = "logging"
    /\ hist' = [hist EXCEPT ![c] = Append(@, "withLogging")]
    /\ pc' = [pc EXCEPT ![c] = "cors"]
    /\ UNCHANGED <<data, lineNo, section, currentFeature, cfg, issues, resp, err>>
    /\ UNCHANGED <<req, keyEnv, apiKeys, cliVars>>

\* withCORS without the answer to OPTIONS.
WithCORSPassesOptions(c) ==
    /\ pc[c] = "cors"
    /\ hist' = [hist EXCEPT ![c] = Append(@, "withCORS")]
    /\ pc' = [pc EXCEPT ![c] = "mux"]
    /\ resp' = resp
    /\ UNCHANGED <<data, lineNo, section, currentFeature, cfg, issues, err>>
    /\ UNCHANGED <<req, keyEnv, apiKeys, cliVars>>

\* withCORS, lines 228-241.
WithCORS(c) ==
    /\ pc[c] = "cors"
    /\ hist' = [hist EXCEPT ![c] = Append(@, "withCORS")]
    /\ IF req[c].method = "OPTIONS"
       THEN answer(c, statusResponse(204))
       ELSE pc' = [pc EXCEPT ![c] = "mux"] /\ resp' = resp
    /\ UNCHANGED <<data, lineNo, section, currentFeature, cfg, issues, err>>
    /\ UNCHANGED <<req, keyEnv, apiKeys, cliVars>>

\* The mux, lines 98-118: /lint is registered for POST only.  Another
\* method is answered 405, or by the file server of "GET /" where the
\* static directory exists, which finds no file of that name.
ServeMux(c) ==
    /\ pc[c] = "mux"
    /\ hist' = [hist EXCEPT ![c] = Append(@, "mux")]
    /\ IF req[c].method = "POST"
       THEN pc' = [pc EXCEPT ![c] = "auth"] /\ resp' = resp
       ELSE \E status \in {404, 405} : answer(c, statusResponse(status))
    /\ UNCHANGED <<data, lineNo, section, currentFeature, cfg, issues, err>>
    /\ UNCHANGED <<req, keyEnv, apiKeys, cliVars>>

\* withAPIKeyAuth, lines 244-268.
WithAPIKeyAuth(c) ==
    /\ pc[c] = "auth"
    /\ hist' = [hist EXCEPT ![c] = Append(@, "withAPIKeyAuth")]
    /\ IF apiKeys = {} \/ requestKey(req[c]) \in apiKeys
       THEN pc' = [pc EXCEPT ![c] = "handleLint"] /\ resp' = resp
       ELSE answer(c, statusResponse(401))
    /\ UNCHANGED <<data, lineNo, section, currentFeature, cfg, issues, err>>
    /\ UNCHANGED <<req, keyEnv, apiKeys, cliVars>>

\* handleLint, lines 150-165, without the test of lines 159-162.
HandleLintNoEmptyTest(c) ==
    /\ pc[c] = "handleLint"
    /\ IF ~req[c].validJSON
       THEN /\ answer(c, statusResponse(400))
            /\ hist' = [hist EXCEPT ![c] = Append(@, "handleLint")]
            /\ data' = data
       ELSE /\ data' = [data EXCEPT ![c] = ScanLines(req[c].Config)]
            /\ hist' = [hist EXCEPT ![c] = @ \o <<"handleLint", "LintBytes">>]
            /\ pc' = [pc EXCEPT ![c] = "scan"]
            /\ resp' = resp
    /\ UNCHANGED <<lineNo, section, currentFeature, cfg, issues, err>>
    /\ UNCHANGED <<req, keyEnv, apiKeys, cliVars>>

\* handleLint, lines 150-165: the body is decoded, an empty config is
\* refused, and LintBytes is entered with the bytes of req.Config.
HandleLint(c) ==
    /\ pc[c] = "handleLint"
    /\ IF ~req[c].validJSON \/ TrimSpace(req[c].Config) = ""
       THEN /\ answer(c, statusResponse(400))
            /\ hist' = [hist EXCEPT ![c] = Append(@, "handleLint")]
            /\ data' = data
       ELSE /\ data' = [data EXCEPT ![c] = ScanLines(req[c].Config)]
            /\ hist' = [hist EXCEPT ![c] = @ \o <<"handleLint", "LintBytes">>]
            /\ pc' = [pc EXCEPT ![c] = "scan"]
            /\ resp' = resp
    /\ UNCHANGED <<lineNo, section, currentFeature, cfg, issues, err>>
    /\ UNCHANGED <<req, keyEnv, apiKeys, cliVars>>

NextServer ==
    \E c \in Calls :
        \/ WithRecovery(c)
        \/ WithLogging(c)
        \/ WithCORS(c)
        \/ ServeMux(c)
        \/ WithAPIKeyAuth(c)
        \/ HandleLint(c)
        \/ ScanLine(c)
        \/ ScanEnd(c)
        \/ ScanTooLong(c)
        \/ ValidateMetadata(c)
        \/ ValidateSettings(c)
        \/ ValidateFeatures(c)
        \/ HandleLintRespond(c)
        \/ HandleLintError(c)

SpecServer == InitServer /\ [][NextServer]_vars

\* Two requests with the same config text and any options, both presenting
\* the configured key.
InitServerPair ==
    \E text \in ConfigTexts, o \in [Calls -> [Strict : BOOLEAN, FixSuggestions : BOOLEAN]] :
        StartServer(Calls, "secret",
                    [c \in Calls |->
                        [method |-> "POST", xApiKey |-> "secret", authorization |-> "",
                         validJSON |-> TRUE, Config |-> text, Strict |-> o[c].Strict,
                         FixSuggestions |-> o[c].FixSuggestions]])

SpecServerPair == InitServerPair /\ [][NextServer]_vars

-----------------------------------------------------------------------------
(***************************************************************************)
(* The command line: main and lintOne.  The files are linted one after     *)
(* the other, each by a call of LintConfig.                                *)
(***************************************************************************)
MaxFiles == 2

\* The call that main's loop makes.
MainCall == 1

ErrNotExist == "no such file or directory"

\* Files: without issues, with a warning only, with errors and a warning,
\* not readable, and with a line beyond the scanner's limit.
Files ==
    {[path |-> "ok.yaml", readable |-> TRUE,
      content |-> yamlConfig("awesome", "prod", "1", "60", <<>>)],
     [path |-> "warn.yaml", readable |-> TRUE,
      content |-> <<"metadata:", "  name: awesome", "  env: qa",
                    "settings:", "  replicas: 2", "  timeout: 30">>],
     [path |-> "bad.yaml", readable |-> TRUE,
      content |-> <<"metadata:", "  name: awesome", "settings:", "  replicas: 0",
                    "features:", "  - enabled: maybe">>],
     [path |-> "missing.yaml", readable |-> FALSE, content |-> <<>>],
     [path |-> "long.yaml", readable |-> TRUE, content |-> <<"metadata:", LongLine>>]}

ArgLists == SeqsUpTo(Files, MaxFiles)

\* flag.Parse() has run: main, line 28.
InitCLI ==
    \E a \in ArgLists, f \in [strict : BOOLEAN, fixSuggestions : BOOLEAN] :
        /\ Locals({}, [c \in Calls |-> <<>>], "idle")
        /\ NoServer
        /\ args = a
        /\ argIdx = 0
        /\ flags = f
        /\ exitCode = 0
        /\ stdout = <<>>
        /\ stderr = <<>>
        /\ exitStatus = -1
        /\ cliPc = "main"

\* main, lines 29-32: no file is named.
MainUsage ==
    /\ cliPc = "main"
    /\ Len(args) = 0
    /\ stderr' = Append(stderr, "Usage: config-linter [flags] <config-file>...")
    /\ exitStatus' = 1
    /\ cliPc' = "exited"
    /\ UNCHANGED <<data, pc, lineNo, section, currentFeature, cfg, issues, resp, err>>
    /\ UNCHANGED <<serverVars, args, argIdx, flags, exitCode, stdout>>

\* main, lines 35-36, lintOne, line 51 and LintConfig: the next file is
\* read; LintConfig returns the error of os.ReadFile, or enters LintBytes
\* with the file's bytes.
MainLintOne ==
    /\ cliPc = "main"
    /\ argIdx < Len(args)
    /\ LET c == MainCall
           f == args[argIdx + 1]
       IN  /\ data' = [data EXCEPT ![c] = f.content]
           /\ pc' = [pc EXCEPT ![c] = IF f.readable THEN "scan" ELSE "failed"]
           /\ lineNo' = [lineNo EXCEPT ![c] = 0]
           /\ section' = [section EXCEPT ![c] = ""]
           /\ currentFeature' = [currentFeature EXCEPT ![c] = featureEntryZero]
           /\ cfg' = [cfg EXCEPT ![c] = parsedConfigNew]
           /\ issues' = [issues EXCEPT ![c] = <<>>]
           /\ err' = [err EXCEPT ![c] =
                        IF f.readable THEN ""
                        ELSE "open " \o f.path \o ": " \o ErrNotExist]
    /\ cliPc' = "lintOne"
    /\ UNCHANGED <<resp, serverVars, args, argIdx, flags, exitCode, stdout, stderr,
                   exitStatus>>

\* The loop leaving at the first file that is unreadable or fatal.
MainLoopStopsAtFailure ==
    /\ cliPc = "lintOne"
    /\ pc[MainCall] \in {"returned", "rejected"}
    /\ IF pc[MainCall] = "rejected"
       THEN exitCode' = 2 /\ stderr' = Append(stderr, resp[MainCall].err)
       ELSE /\ exitCode' = IF resp[MainCall].fatal THEN 2 ELSE exitCode
            /\ stderr' = stderr
    /\ argIdx' = IF exitCode' = 2 THEN Len(args) ELSE argIdx + 1
    /\ pc' = [pc EXCEPT ![MainCall] = "idle"]
    /\ cliPc' = "main"
    /\ UNCHANGED <<data, lineNo, section, currentFeature, cfg, issues, resp, err>>
    /\ UNCHANGED <<serverVars, args, flags, stdout, exitStatus>>

\* main, lines 36-45: lintOne has returned; an error is printed, an error
\* or a fatal result sets exitCode, and the loop goes on to the next file.
MainLoop ==
    /\ cliPc = "lintOne"
    /\ pc[MainCall] \in {"returned", "rejected"}
    /\ IF pc[MainCall] = "rejected"
       THEN exitCode' = 2 /\ stderr' = Append(stderr, resp[MainCall].err)
       ELSE /\ exitCode' = IF resp[MainCall].fatal THEN 2 ELSE exitCode
            /\ stderr' = stderr
    /\ argIdx' = argIdx + 1
    /\ pc' = [pc EXCEPT ![MainCall] = "idle"]
    /\ cliPc' = "main"
    /\ UNCHANGED <<data, lineNo, section, currentFeature, cfg, issues, resp, err>>
    /\ UNCHANGED <<serverVars, args, flags, stdout, exitStatus>>

\* main, line 47.
MainExit ==
    /\ cliPc = "main"
    /\ Len(args) > 0
    /\ argIdx = Len(args)
    /\ exitStatus' = exitCode
    /\ cliPc' = "exited"
    /\ UNCHANGED <<data, pc, lineNo, section, currentFeature, cfg, issues, resp, err>>
    /\ UNCHANGED <<serverVars, args, argIdx, flags, exitCode, stdout, stderr>>

NextCLI ==
    \/ MainUsage
    \/ MainLintOne
    \/ MainLoop
    \/ MainExit
    \/ \E c \in Calls :
          \/ ScanLine(c)
          \/ ScanEnd(c)
          \/ ScanTooLong(c)
          \/ ValidateMetadata(c)
          \/ ValidateSettings(c)
          \/ ValidateFeatures(c)
          \/ LintOneReturn(c)
          \/ LintOneError(c)

SpecCLI == InitCLI /\ [][NextCLI]_vars

-----------------------------------------------------------------------------
(***************************************************************************)
(* Vocabulary of the properties.                                           *)
(***************************************************************************)
\* LintBytes has returned the issues of call c.
Returned(c) == pc[c] \in {"done", "returned"}

HasIssue(iss, severity, message) ==
    \E i \in 1..Len(iss) : iss[i].Severity = severity /\ iss[i].Message = message

CountMessage(iss, message) ==
    Cardinality({i \in 1..Len(iss) : iss[i].Message = message})

\* The value text denotes a base-10 integer strictly greater than zero.
DenotesPositiveInt(text) == Atoi(text).ok /\ Atoi(text).n > 0

\* The section whose validator emits the message: 1 metadata, 2 settings,
\* 3 features.
MessageSection(message) ==
    IF message = "missing metadata section" \/ HasPrefix(message, "metadata.") THEN 1
    ELSE IF message = "missing settings section" \/ HasPrefix(message, "settings.") THEN 2
    ELSE 3

\* The parsed config is valid in the sense of the schema.
ValidParsed(c) ==
    /\ "name" \in DOMAIN c.Metadata /\ c.Metadata["name"].Value # ""
    /\ "env" \in DOMAIN c.Metadata /\ c.Metadata["env"].Value \in {"dev", "staging", "prod"}
    /\ "replicas" \in DOMAIN c.Settings /\ DenotesPositiveInt(c.Settings["replicas"].Value)
    /\ "timeout" \in DOMAIN c.Settings /\ DenotesPositiveInt(c.Settings["timeout"].Value)
    /\ \A i \in 1..Len(c.Features) :
          /\ "name" \in DOMAIN c.Features[i].Fields
          /\ c.Features[i].Fields["name"].Value # ""
          /\ "enabled" \in DOMAIN c.Features[i].Fields
          /\ ToLower(c.Features[i].Fields["enabled"].Value) \in {"true", "false"}

-----------------------------------------------------------------------------
(***************************************************************************)
(* The claims.                                                             *)
(***************************************************************************)

\* C1: a config with a non-empty metadata.name, a metadata.env among dev,
\* staging and prod, settings.replicas > 0, settings.timeout > 0 and feature
\* entries that each have a non-empty name and a true/false enabled, written
\* one key per line under the three section headers, is parsed into exactly
\* these fields and LintBytes returns no issue for it.
C1_ValidConfigHasNoIssues ==
    \A c \in Calls :
        Returned(c) =>
            /\ data[c] \in ValidInputs => ValidParsed(cfg[c])
            /\ ValidParsed(cfg[c]) => issues[c] = <<>>

\* A valid config in the JSON form with two feature entries has been linted.
C1_Witness ==
    \E c \in Calls :
        /\ pc[c] = "done"
        /\ data[c] \in ValidInputs
        /\ data[c][1] = "{"
        /\ Len(cfg[c].Features) = 2
        /\ cfg[c].Settings["replicas"].Value = "+3"
        /\ issues[c] = <<>>

\* C2: linting Scenario A yields an issue sequence that contains all six of
\* the issues the spec lists for it.
C2_ScenarioAYieldsSixIssues ==
    \A c \in Calls :
        (Returned(c) /\ data[c] \in ScenarioAInputs) =>
            /\ HasIssue(issues[c], "error", "metadata.name is required")
            /\ HasIssue(issues[c], "warn", "metadata.env value \"unknown\" is not recognized")
            /\ HasIssue(issues[c], "error", "settings.replicas must be a positive integer")
            /\ HasIssue(issues[c], "warn", "settings.timeout should be a positive integer")
            /\ HasIssue(issues[c], "warn", "feature entry missing name")
            /\ HasIssue(issues[c], "warn", "feature enabled should be true or false")

\* C3: the positive-integer test accepts a value text iff the text parses as
\* a base-10 integer strictly greater than zero: a present settings.replicas
\* (settings.timeout) draws its "positive integer" issue exactly when its
\* text does not denote such an integer.
C3_PositiveIntTestIsStrictlyPositive ==
    \A c \in Calls :
        Returned(c) =>
            /\ "replicas" \in DOMAIN cfg[c].Settings =>
                  (HasIssue(issues[c], "error", "settings.replicas must be a positive integer")
                     <=> ~DenotesPositiveInt(cfg[c].Settings["replicas"].Value))
            /\ "timeout" \in DOMAIN cfg[c].Settings =>
                  (HasIssue(issues[c], "warn", "settings.timeout should be a positive integer")
                     <=> ~DenotesPositiveInt(cfg[c].Settings["timeout"].Value))

\* C4: when no field was ever stored into the metadata mapping, the issues
\* contain exactly one Error "missing metadata section" and no issue about
\* metadata.name or metadata.env.
C4_MissingMetadataIsTheOnlyMetadataIssue ==
    \A c \in Calls :
        (Returned(c) /\ MapLen(cfg[c].Metadata) = 0) =>
            /\ CountMessage(issues[c], "missing metadata section") = 1
            /\ HasIssue(issues[c], "error", "missing metadata section")
            /\ \A i \in 1..Len(issues[c]) :
                  /\ issues[c][i].Message # "metadata.name is required"
                  /\ issues[c][i].Message # "metadata.env is required"
                  /\ ~HasPrefix(issues[c][i].Message, "metadata.env value")

\* A metadata header with no field under it, among other sections, has been
\* linted.
C4_Witness ==
    \E c \in Calls :
        /\ pc[c] = "done"
        /\ cfg[c].MetadataLine > 0
        /\ MapLen(cfg[c].Metadata) = 0
        /\ MapLen(cfg[c].Settings) > 0
        /\ CountMessage(issues[c], "missing metadata section") = 1
        /\ Len(issues[c]) > 1

\* C5: when the last assignment to replicas inside the settings section has
\* the value text 0, the issues contain the Error "settings.replicas must be
\* a positive integer", at that assignment's line.
C5_ReplicasZeroIsAnError ==
    \A c \in Calls :
        (/\ Returned(c)
         /\ "replicas" \in DOMAIN cfg[c].Settings
         /\ cfg[c].Settings["replicas"].Value = "0") =>
            \E i \in 1..Len(issues[c]) :
                issues[c][i] = Issue(cfg[c].Settings["replicas"].Line, "error",
                                     "settings.replicas must be a positive integer", "")

\* replicas: 0 has been linted in an input that also assigns replicas: 2
\* earlier and has lines of other sections.
C5_Witness ==
    \E c \in Calls :
        /\ pc[c] = "done"
        /\ Len(data[c]) = 4
        /\ data[c][2] = "  replicas: 2"
        /\ "replicas" \in DOMAIN cfg[c].Settings
        /\ cfg[c].Settings["replicas"] = fieldInfo("0", 3)
        /\ cfg[c].MetadataLine = 4
        /\ HasIssue(issues[c], "error", "settings.replicas must be a positive integer")

\* The settings header line the validator anchors its issues at.
IsSettingsHeaderLine(line) ==
    parseKeyValue(TrimSpace(TrimSuffix(TrimSpace(line), ","))).key = "settings"

\* Scenario C: settings with a positive-integer replicas and no timeout key.
ScenarioC(c) ==
    /\ "replicas" \in DOMAIN c.Settings
    /\ DenotesPositiveInt(c.Settings["replicas"].Value)
    /\ "timeout" \notin DOMAIN c.Settings

\* C6: when the settings section stores a positive-integer replicas and no
\* timeout, the settings validator adds exactly one issue: the Warning
\* "settings.timeout is missing; defaulting to 30" with the fix
\* "Add settings.timeout: 30", at a settings header line of the input.
C6_MissingTimeoutIsTheOnlySettingsIssue ==
    [][\A c \in Calls :
          (pc[c] = "validateSettings" /\ pc'[c] = "validateFeatures" /\ ScenarioC(cfg[c])) =>
             /\ issues'[c] = Append(issues[c],
                                    Issue(cfg[c].SettingsLine, "warn",
                                          "settings.timeout is missing; defaulting to 30",
                                          "Add settings.timeout: 30"))
             /\ cfg[c].SettingsLine \in 1..Len(data[c])
             /\ IsSettingsHeaderLine(data[c][cfg[c].SettingsLine])]_vars

\* The settings validator has run on such a section, after the metadata
\* validator reported an issue of its own.
C6_Witness ==
    \E c \in Calls :
        /\ pc[c] = "validateFeatures"
        /\ ScenarioC(cfg[c])
        /\ Len(issues[c]) = 2
        /\ issues[c][2].Message = "settings.timeout is missing; defaulting to 30"
        /\ issues[c][2].Line > 1

C8_IssuesInSectionOrder ==
    \A c \in Calls :
        Returned(c) =>
            /\ \A i, j \in 1..Len(issues[c]) :
                  i < j =>
                     /\ MessageSection(issues[c][i].Message) <= MessageSection(issues[c][j].Message)
                     /\ (MessageSection(issues[c][i].Message) = 3) =>
                           /\ issues[c][i].Line <= issues[c][j].Line
                           /\ issues[c][i].Line = issues[c][j].Line =>
                                 /\ issues[c][i].Message = "feature entry missing name"
                                 /\ issues[c][j].Message = "feature enabled should be true or false"
            /\ \A i \in 1..Len(issues[c]) :
                  MessageSection(issues[c][i].Message) = 3 =>
                     \E k \in 1..Len(cfg[c].Features) : cfg[c].Features[k].Line = issues[c][i].Line
            /\ \A k, l \in 1..Len(cfg[c].Features) :
                  k < l => cfg[c].Features[k].Line < cfg[c].Features[l].Line

\* The features section was written before the metadata section: a metadata
\* issue precedes a settings issue of a smaller line, which precedes the two
\* features issues of one entry, of a line smaller than the metadata issue's.
C8_Witness ==
    \E c \in Calls :
        /\ pc[c] = "done"
        /\ Len(issues[c]) = 4
        /\ MessageSection(issues[c][1].Message) = 1
        /\ MessageSection(issues[c][2].Message) = 2
        /\ issues[c][3].Message = "feature entry missing name"
        /\ issues[c][4].Message = "feature enabled should be true or false"
        /\ issues[c][1].Line > issues[c][3].Line
        /\ issues[c][1].Line > issues[c][2].Line

\* The fatal policy: some issue is an error, or strict and some issue is a
\* warning.
FatalPolicy(iss, strict) ==
    \/ \E i \in 1..Len(iss) : iss[i].Severity = "error"
    \/ strict /\ \E i \in 1..Len(iss) : iss[i].Severity = "warn"

\* C9: the HTTP handler and the CLI both compute fatal by the fatal policy;
\* they agree on every issue sequence and strict value, fatal is false for
\* an empty sequence, and fatal without strict implies fatal with strict.
C9_CallersShareTheFatalPolicy ==
    \A c \in Calls :
        /\ pc[c] = "returned" =>
              /\ resp[c].caller \in {"http", "cli"}
              /\ resp[c].fatal = FatalPolicy(issues[c], resp[c].strict)
              /\ issues[c] = <<>> => ~resp[c].fatal
        /\ Returned(c) =>
              /\ \A strict \in BOOLEAN :
                    handleLintFatal(issues[c], strict) = lintOneFatal(issues[c], strict)
              /\ handleLintFatal(issues[c], FALSE) => handleLintFatal(issues[c], TRUE)
              /\ lintOneFatal(issues[c], FALSE) => lintOneFatal(issues[c], TRUE)

\* The CLI has returned fatal under -strict for issues that are all warnings,
\* the first of which is not the only one.
C9_Witness ==
    \E c \in Calls :
        /\ pc[c] = "returned"
        /\ resp[c].caller = "cli"
        /\ resp[c].strict
        /\ resp[c].fatal
        /\ Len(issues[c]) >= 2
        /\ \A i \in 1..Len(issues[c]) : issues[c][i].Severity = "warn"

\* C10: every issue LintBytes returns has a line that is at least 1 and at
\* most max(1, number of lines of the input), and the severity "error" or
\* "warn".
C10_IssueLineAndSeverityInRange ==
    \A c \in Calls :
        \A i \in 1..Len(issues[c]) :
            /\ issues[c][i].Line >= 1
            /\ issues[c][i].Line <= (IF Len(data[c]) > 1 THEN Len(data[c]) ELSE 1)
            /\ issues[c][i].Severity \in {"error", "warn"}

\* The empty input has been linted: its two issues are at line 1.
C10_Witness ==
    \E c \in Calls :
        /\ pc[c] = "done"
        /\ data[c] = <<>>
        /\ Len(issues[c]) = 2
        /\ \A i \in 1..2 : issues[c][i].Line = 1

\* C11: LintBytes returns a nil error for every input held in memory, lines
\* of any length included, and no line keeps the lines after it from being
\* scanned: once the scan is over, every line of the input has been scanned.
C11_LintBytesNeverFails ==
    \A c \in Calls :
        /\ err[c] = ""
        /\ pc[c] \notin {"idle", "scan"} => lineNo[c] = Len(data[c])

\* How many times the request entered the stage.
Entered(c, stage) == Cardinality({i \in 1..Len(hist[c]) : hist[c][i] = stage})

\* The config text is empty or made of white space only.
BlankText(text) == \A i \in 1..Len(text) : Char(text, i) \in WhiteSpace

\* C12: a request that reaches the lint handler with a body that is not
\* valid JSON, or with an empty or blank config, is answered 400 and LintBytes
\* is not entered; for every other request LintBytes is entered exactly once
\* and the answer is 200 with the issues it returned, the request's strict
\* and the fatal flag, or 500 when LintBytes returned an error.
C12_HandlerAnswers ==
    \A c \in Calls :
        Entered(c, "handleLint") > 0 =>
            IF ~req[c].validJSON \/ BlankText(req[c].Config)
            THEN /\ Entered(c, "LintBytes") = 0
                 /\ pc[c] = "responded"
                 /\ resp[c].status = 400
            ELSE /\ Entered(c, "LintBytes") = 1
                 /\ pc[c] # "responded"
                 /\ pc[c] = "returned" =>
                        /\ err[c] = ""
                        /\ resp[c].status = 200
                        /\ resp[c].issues = issues[c]
                        /\ resp[c].strict = req[c].Strict
                        /\ resp[c].fatal = FatalPolicy(issues[c], req[c].Strict)
                 /\ pc[c] = "rejected" => err[c] # "" /\ resp[c].status = 500
                 /\ pc[c] = "done" => err[c] = ""

C12_Witness ==
    /\ pc[1] = "returned"
    /\ Entered(1, "LintBytes") = 1
    /\ resp[1].status = 200
    /\ Len(resp[1].issues) = 1
    /\ resp[1].issues[1].Severity = SeverityWarning
    /\ resp[1].strict
    /\ resp[1].fatal

\* The request has been handed to the lint handler.
ReachedHandler(c) == pc[c] = "handleLint" \/ Entered(c, "handleLint") > 0

\* The request presents key k: in its X-API-Key header, or, that header
\* being empty, as the token of an Authorization header of scheme Bearer.
PresentsKey(r, k) ==
    \/ r.xApiKey # "" /\ r.xApiKey = k
    \/ /\ r.xApiKey = ""
       /\ HasPrefix(r.authorization, "Bearer ")
       /\ TrimSpace(Rest(r.authorization, Len("Bearer ") + 1)) = k

\* C13: with at least one API key configured, a POST /lint request that has
\* passed the API-key check has reached the lint handler if and only if it
\* presents one of the configured keys; every other one is answered 401 and
\* neither the handler nor LintBytes is entered.
C13_HandlerReachedIffKeyPresented ==
    \A c \in Calls :
        (apiKeys # {} /\ Entered(c, "withAPIKeyAuth") > 0) =>
            IF \E k \in apiKeys : PresentsKey(req[c], k)
            THEN ReachedHandler(c) /\ resp[c].status # 401
            ELSE /\ ~ReachedHandler(c)
                 /\ Entered(c, "LintBytes") = 0
                 /\ pc[c] = "responded"
                 /\ resp[c].status = 401

\* A request with an empty X-API-Key header and a padded Bearer token that
\* is a configured key has been served.
C13_Witness ==
    /\ apiKeys = {"secret", "other"}
    /\ req[1].xApiKey = ""
    /\ req[1].authorization = "Bearer  other "
    /\ pc[1] = "returned"
    /\ resp[1].status = 200

\* C14: with no API key configured (CONFIG_LINTER_API_KEY empty, or made of
\* separators and blanks only), no request reaches the lint handler.
C14_NoKeyConfiguredNoRequestServed ==
    \A c \in Calls : loadConfigKeys(keyEnv) = {} => ~ReachedHandler(c)

\* File f can be read and linted; the issues LintConfig returns for it.
Lints(f) == f.readable /\ LintBytes(f.content).err = ""

IssuesOf(f) == LintBytes(f.content).issues

HasError(iss) == \E i \in 1..Len(iss) : iss[i].Severity = SeverityError

Wrote(out, line) == \E k \in 1..Len(out) : out[k] = line

\* C15: the CLI exits with 0 when every file is read and has no issue, with
\* 1 when a file cannot be read (and no file that is read fails validation),
\* and with 2 when every file is read and one of them fails validation.
C15_ExitCodeTellsSystemErrorFromValidationFailure ==
    (cliPc = "exited" /\ Len(args) > 0) =>
        LET every(P(_)) == \A i \in 1..Len(args) : P(args[i])
            some(P(_))  == \E i \in 1..Len(args) : P(args[i])
            clean(f)    == Lints(f) /\ IssuesOf(f) = <<>>
            fails(f)    == Lints(f) /\ FatalPolicy(IssuesOf(f), flags.strict)
            unread(f)   == ~f.readable
            passes(f)   == unread(f) \/ (Lints(f) /\ ~fails(f))
        IN  /\ every(clean) => exitStatus = 0
            /\ (some(unread) /\ every(passes)) => exitStatus = 1
            /\ (every(Lints) /\ some(fails)) => exitStatus = 2

\* C16: when the CLI has exited, every issue of every file it could lint is
\* on stderr, with or without -strict; if a linted file has an Error issue
\* the status is not 0; if every file is linted, none has an Error issue and
\* one has a Warning, the status is 0 without -strict and not 0 with it.
C16_WarningsFailOnlyUnderStrict ==
    (cliPc = "exited" /\ Len(args) > 0) =>
        /\ \A i \in 1..Len(args) :
              Lints(args[i]) =>
                  /\ \A j \in 1..Len(IssuesOf(args[i])) :
                        Wrote(stderr, issueLine(args[i].path, IssuesOf(args[i])[j]))
                  /\ HasError(IssuesOf(args[i])) => exitStatus # 0
        /\ ( /\ \A i \in 1..Len(args) : Lints(args[i]) /\ ~HasError(IssuesOf(args[i]))
             /\ \E i \in 1..Len(args) : IssuesOf(args[i]) # <<>> )
           => (exitStatus = 0 <=> ~flags.strict)

\* One file with a warning only has been linted under -strict.
C16_Witness ==
    /\ cliPc = "exited"
    /\ Len(args) = 1
    /\ Lints(args[1])
    /\ Len(IssuesOf(args[1])) = 1
    /\ ~HasError(IssuesOf(args[1]))
    /\ flags.strict
    /\ exitStatus = 2
    /\ Wrote(stderr, "  warn.yaml:3 [warn] metadata.env value \"qa\" is not recognized")

\* The answer without the fields that strict decides.
WithoutStrict(response) == [response EXCEPT !.strict = FALSE, !.fatal = FALSE]

C18_ConcurrentCallsDoNotInterfere ==
    \A c \in Calls :
        /\ pc[c] = "done" =>
              /\ LintBytes(data[c]).err = ""
              /\ issues[c] = LintBytes(data[c]).issues
        /\ pc[c] = "failed" =>
              /\ err[c] = LintBytes(data[c]).err /\ err[c] # ""
              /\ issues[c] = <<>>
        /\ err[c] # "" => pc[c] = "failed"

\* Both calls have returned, with different issues for different inputs.
C18_Witness ==
    /\ pc[1] = "done" /\ pc[2] = "done"
    /\ data[1] = <<"metadata:", "  name: awesome">>
    /\ data[2] = <<"features:", "  - enabled: maybe">>
    /\ Len(issues[1]) = 2
    /\ Len(issues[2]) = 4
    /\ issues[1][1].Message = "metadata.env is required"
    /\ issues[2][1].Message = "missing metadata section"

SectionNames == {"metadata", "settings", "features"}

\* The texts of the key-value lines whose key is name: indented or not,
\* the key bare or in quotes, with or without a value, an opening bracket
\* or a trailing comma; with dashed, on the line that opens a feature entry.
HeaderTexts ==
    [name \in SectionNames |->
        [dashed \in BOOLEAN |->
            {pad \o dash \o q \o name \o q \o ":" \o tail :
                pad \in {"", "  ", "    "},
                dash \in IF dashed THEN {"- "} ELSE {""},
                q \in {"", "\"", "'"},
                tail \in {"", " x", " 1", " {", " [,", ","}}]]

\* Line is a key-value line with key name, read in section sec.
IsHeader(line, name, sec) ==
    \/ line \in HeaderTexts[name][FALSE]
    \/ sec = "features" /\ line \in HeaderTexts[name][TRUE]

\* Lines that are a field with a value.
FieldLines == {"  env: prod", "  env: unknown", "  name: awesome", "  replicas: 2"}

\* C19: whatever the current section and whether or not a feature entry is
\* pending, scanning a key-value line whose key is metadata, settings or
\* features sets the current section to that name and stores no field:
\* metadata and settings are unchanged and no feature entry gains a field;
\* and a field line scanned while the section is metadata is stored into
\* metadata and leaves the feature entries alone.
C19_SectionKeyAlwaysSwitches ==
    [][\A c \in Calls :
          (pc[c] = "scan" /\ lineNo'[c] = lineNo[c] + 1) =>
              LET line == data[c][lineNo'[c]]
              IN  /\ \A name \in SectionNames :
                        IsHeader(line, name, section[c]) =>
                            /\ section'[c] = name
                            /\ cfg'[c].Metadata = cfg[c].Metadata
                            /\ cfg'[c].Settings = cfg[c].Settings
                            /\ currentFeature'[c].Fields
                                  \in {EmptyMap, currentFeature[c].Fields}
                            /\ cfg'[c].Features
                                  \in {cfg[c].Features,
                                       Append(cfg[c].Features, currentFeature[c])}
                  /\ (line \in FieldLines /\ section[c] = "metadata") =>
                        /\ section'[c] = "metadata"
                        /\ \E k \in DOMAIN cfg'[c].Metadata :
                              cfg'[c].Metadata[k].Line = lineNo'[c]
                        /\ currentFeature'[c] = currentFeature[c]
                        /\ cfg'[c].Features = cfg[c].Features
    ]_vars

\* A feature field named metadata has switched the section while an entry
\* was pending, and the next field went into metadata.
C19_Witness ==
    \E c \in Calls :
        /\ Len(data[c]) >= 4
        /\ SubSeq(data[c], 1, 4)
              = <<"features:", "  - name: a", "    metadata: x", "  env: prod">>
        /\ lineNo[c] = 4
        /\ section[c] = "metadata"
        /\ DOMAIN currentFeature[c].Fields = {"name"}
        /\ DOMAIN cfg[c].Metadata = {"env"}
        /\ cfg[c].Metadata["env"].Line = 4
        /\ cfg[c].MetadataLine = 3

\* C20: a section's *Line, once set by a header of the section, is not
\* changed by a later header of the same section.
C20_HeaderLineKeepsFirstOccurrence ==
    [][\A c \in Calls :
          (pc[c] = "scan" /\ pc'[c] = "scan") =>
              /\ cfg[c].MetadataLine # 0 => cfg'[c].MetadataLine = cfg[c].MetadataLine
              /\ cfg[c].SettingsLine # 0 => cfg'[c].SettingsLine = cfg[c].SettingsLine
              /\ cfg[c].FeaturesLine # 0 => cfg'[c].FeaturesLine = cfg[c].FeaturesLine
    ]_vars

\* Call c takes a scan step over the line it calls line.
ScanStep(c) == pc[c] = "scan" /\ lineNo'[c] = lineNo[c] + 1

\* Key-value lines whose value text is exactly { or [.
NestedStartLines == {"  name: {", "  replicas: [", "  tags: [,"}

\* C21: scanning a key-value line whose value text is exactly { or [ adds no
\* field to any mapping: metadata, settings, the pending feature entry and
\* the features sequence are as before the line.
C21_NestedStartStoresNoField ==
    [][\A c \in Calls :
          (ScanStep(c) /\ data[c][lineNo'[c]] \in NestedStartLines) =>
              /\ cfg'[c].Metadata = cfg[c].Metadata
              /\ cfg'[c].Settings = cfg[c].Settings
              /\ cfg'[c].Features = cfg[c].Features
              /\ currentFeature'[c] = currentFeature[c]
    ]_vars

\* The greatest member of a non-empty set of numbers.
Greatest(S) == CHOOSE x \in S : \A y \in S : y <= x

\* The catalogue lines read by hand: the section a header line names, and
\* the key and value of a field line.
HeaderLine ==
    [l \in {"metadata:", "settings:", "features:"} |->
        IF l = "metadata:" THEN "metadata"
        ELSE IF l = "settings:" THEN "settings" ELSE "features"]

RepeatField ==
    [l \in {"  name: a", "  name: b", "  replicas: 1"} |->
        IF l = "  name: a" THEN [key |-> "name", value |-> "a"]
        ELSE IF l = "  name: b" THEN [key |-> "name", value |-> "b"]
        ELSE [key |-> "replicas", value |-> "1"]]

\* The section in force when line i of d is processed: the one named by the
\* last header line before it.
SectionBefore(d, i) ==
    LET hs == {j \in 1..(i - 1) : d[j] \in DOMAIN HeaderLine}
    IN  IF hs = {} THEN "" ELSE HeaderLine[d[Greatest(hs)]]

\* The lines among the first n of d that write key k while the section is sec.
WritesOf(d, n, sec, k) ==
    {i \in 1..n : /\ d[i] \in DOMAIN RepeatField
                  /\ RepeatField[d[i]].key = k
                  /\ SectionBefore(d, i) = sec}

\* The mapping of section sec after the first n lines of d, last write wins.
LastWrites(d, n, sec) ==
    [k \in {k \in {"name", "replicas"} : WritesOf(d, n, sec, k) # {}} |->
        LET i == Greatest(WritesOf(d, n, sec, k))
        IN  fieldInfo(RepeatField[d[i]].value, i)]

OverRepeatLines(c) == \A i \in 1..Len(data[c]) : data[c][i] \in RepeatLines

\* C22: at every point of the scan of an input of header and field lines,
\* the metadata (settings) mapping holds, for each key, the value and line of
\* the last line with that key processed while the section was metadata
\* (settings), sections left and re-entered included, and nothing else.
C22_LastWriteWins ==
    \A c \in Calls :
        (pc[c] # "idle" /\ OverRepeatLines(c)) =>
            /\ cfg[c].Metadata = LastWrites(data[c], lineNo[c], "metadata")
            /\ cfg[c].Settings = LastWrites(data[c], lineNo[c], "settings")

\* name is written in metadata, the section is left and re-entered, and name
\* is written again: the later value and line are the ones stored, and the
\* settings mapping has not been touched.
C22_Witness ==
    \E c \in Calls :
        /\ data[c] = <<"metadata:", "  name: a", "settings:", "metadata:", "  name: b">>
        /\ lineNo[c] = 5
        /\ cfg[c].Metadata = [k \in {"name"} |-> fieldInfo("b", 5)]
        /\ cfg[c].Settings = EmptyMap

\* The calls whose scan has started.
Scanning(c) == pc[c] # "idle"

\* C23: at every point of the scan and in the parsed config every entry of
\* the features sequence has at least one field and an anchor line of at
\* least 1.
C23_FeaturesEntriesHaveFields ==
    \A c \in Calls :
        Scanning(c) =>
            \A k \in 1..Len(cfg[c].Features) :
                /\ MapLen(cfg[c].Features[k].Fields) >= 1
                /\ cfg[c].Features[k].Line >= 1

\* A bare marker opens an entry that receives no field before the closing
\* brace and the next marker: only the entry of line 4 is in the parsed
\* config.
C23_Witness ==
    \E c \in Calls :
        /\ data[c] = <<"features:", "  -", "  },", "  - name: a">>
        /\ Returned(c)
        /\ Len(cfg[c].Features) = 1
        /\ cfg[c].Features[1].Line = 4

\* Line i of d opens a feature entry in the features section and line i + 1
\* closes it.
ClosedEmptyAt(d, i) ==
    /\ i + 1 <= Len(d)
    /\ d[i] \in {"  -", "  - {"}
    /\ d[i + 1] = "  },"
    /\ SectionBefore(d, i) = "features"

\* C24: the lint result of an input in which an entry is opened in the
\* features section and closed by } with no key-value line in between has
\* the Warning "each feature entry should be a mapping".
C24_EntryClosedEmptyIsWarned ==
    \A c \in Calls :
        (Returned(c) /\ \E i \in 1..Len(data[c]) : ClosedEmptyAt(data[c], i)) =>
            HasIssue(issues[c], SeverityWarning, "each feature entry should be a mapping")

\* Line i of d is a bare marker in the features section and line i + 1 is
\* the first field of its entry.
BareMarkerAt(d, i) ==
    /\ i + 1 <= Len(d)
    /\ d[i] = "  -"
    /\ d[i + 1] \in {"    enabled: true", "    name: b"}
    /\ SectionBefore(d, i) = "features"

\* C25: the entry begun by a bare marker line whose fields follow on later
\* lines is anchored at the marker's line: the parsed config has an entry
\* with that line and none with the line of its first field, and no issue
\* about a feature entry is reported at the first field's line.
C25_BareMarkerAnchorsEntry ==
    \A c \in Calls :
        Returned(c) =>
            \A i \in 1..Len(data[c]) :
                BareMarkerAt(data[c], i) =>
                    /\ \E k \in 1..Len(cfg[c].Features) : cfg[c].Features[k].Line = i
                    /\ \A k \in 1..Len(cfg[c].Features) : cfg[c].Features[k].Line # i + 1
                    /\ \A k \in 1..Len(issues[c]) :
                           MessageSection(issues[c][k].Message) = 3
                               => issues[c][k].Line # i + 1

\* The pending entry of call c has received a field.
PendingHasFields(c) == MapLen(currentFeature[c].Fields) > 0

\* The entries call c has built so far, while it scans: those appended and
\* the pending one that has received a field.
AllEntries(c) ==
    cfg[c].Features \o (IF PendingHasFields(c) THEN <<currentFeature[c]>> ELSE <<>>)

\* after continues before: every entry of before is in after at its place,
\* the last one possibly with more fields, and an entry after them is a new
\* one, anchored below every earlier entry.
ContinuesEntries(before, after) ==
    /\ Len(after) \in {Len(before), Len(before) + 1}
    /\ \A k \in 1..(Len(before) - 1) : after[k] = before[k]
    /\ Len(before) > 0 =>
           /\ after[Len(before)].Line = before[Len(before)].Line
           /\ DOMAIN before[Len(before)].Fields \subseteq DOMAIN after[Len(before)].Fields
    /\ (Len(after) > Len(before) /\ Len(before) > 0) =>
           after[Len(after)].Line > before[Len(before)].Line

\* C26: every pending entry that has received a field is appended to
\* features exactly once.  While a call scans, a step keeps every entry
\* built so far, appended entries never change, and an entry is appended
\* only by taking the pending one; a closing brace line in the features
\* section leaves the pending entry empty with the entries built so far all
\* appended; the step that ends the scan leaves features equal to the
\* entries built, and features does not change afterwards.
C26_PendingEntryAppendedExactlyOnce ==
    [][\A c \in Calls :
          /\ (pc[c] = "scan" /\ pc'[c] = "scan") =>
                 /\ ContinuesEntries(AllEntries(c), AllEntries(c)')
                 /\ \A k \in 1..Len(cfg[c].Features) :
                        /\ k <= Len(cfg'[c].Features)
                        /\ cfg'[c].Features[k] = cfg[c].Features[k]
                 /\ cfg'[c].Features # cfg[c].Features =>
                        /\ PendingHasFields(c)
                        /\ cfg'[c].Features = AllEntries(c)
          /\ (ScanStep(c) /\ data[c][lineNo'[c]] = "  }," /\ section[c] = "features") =>
                 /\ ~PendingHasFields(c)'
                 /\ cfg'[c].Features = AllEntries(c)
          /\ (pc[c] = "scan" /\ pc'[c] # "scan") => cfg'[c].Features = AllEntries(c)
          /\ pc[c] \notin {"scan", "idle"} => cfg'[c].Features = cfg[c].Features
    ]_vars

\* An entry flushed by a closing brace and a second one pending at the end
\* of the input: the parsed config has the two, once each.
C26_Witness ==
    \E c \in Calls :
        /\ data[c] = <<"features:", "  - name: a", "  },", "  - name: a">>
        /\ Returned(c)
        /\ Len(cfg[c].Features) = 2
        /\ cfg[c].Features[1].Line = 2
        /\ cfg[c].Features[2].Line = 4

\* The marker lines of the feature catalogue and the fields its lines
\* carry.
MarkerLines == {"  -", "  - name: a"}

FeatureField ==
    [l \in {"  - name: a", "    enabled: true", "    name: b"} |->
        IF l = "  - name: a" THEN [key |-> "name", value |-> "a"]
        ELSE IF l = "    enabled: true" THEN [key |-> "enabled", value |-> "true"]
        ELSE [key |-> "name", value |-> "b"]]

Markers(d) == {i \in 1..Len(d) : d[i] \in MarkerLines}

\* The line of the next marker after line i of d, or the line after the
\* last.
NextMarker(d, i) ==
    LET later == {j \in Markers(d) : j > i}
    IN  IF later = {} THEN Len(d) + 1 ELSE MinOf(later)

\* The line of the k-th marker of d.
MarkerNo(d, k) ==
    CHOOSE i \in Markers(d) : Cardinality({j \in Markers(d) : j < i}) = k - 1

\* d is a features section of marker-led entries: the header, then marker
\* lines and field lines only, the first of them a marker, and every marker
\* carrying a field or followed by a field line.
MarkerLedInput(d) ==
    /\ Len(d) >= 2
    /\ d[1] = "features:"
    /\ d[2] \in MarkerLines
    /\ \A i \in 2..Len(d) : d[i] \in MarkerLines \cup DOMAIN FeatureField
    /\ \A i \in Markers(d) :
           d[i] = "  -" => (i + 1 <= Len(d) /\ d[i + 1] \notin MarkerLines)

\* The lines of d from marker line i up to the next marker that carry key.
FieldLinesOf(d, i, key) ==
    {j \in i..(NextMarker(d, i) - 1) :
        d[j] \in DOMAIN FeatureField /\ FeatureField[d[j]].key = key}

\* The fields of the entry of marker line i of d, the last line of a key
\* giving its value.
FieldsOf(d, i) ==
    [key \in {key \in {"name", "enabled"} : FieldLinesOf(d, i, key) # {}} |->
        LET j == Greatest(FieldLinesOf(d, i, key))
        IN  fieldInfo(FeatureField[d[j]].value, j)]

\* C27: in the features section a marker line appends a pending entry that
\* has fields and starts a new entry; an input of N marker-led entries
\* yields exactly N feature entries, in input order, with strictly
\* increasing anchor lines, the k-th holding exactly the fields of the lines
\* from the k-th marker up to the next.
C27_EachMarkerYieldsOneEntry ==
    /\ [](\A c \in Calls :
             (Returned(c) /\ MarkerLedInput(data[c])) =>
                 LET d == data[c]
                     f == cfg[c].Features
                 IN  /\ Len(f) = Cardinality(Markers(d))
                     /\ \A k \in 1..Len(f) :
                            /\ f[k].Fields = FieldsOf(d, MarkerNo(d, k))
                            /\ f[k].Line >= MarkerNo(d, k)
                            /\ f[k].Line < NextMarker(d, MarkerNo(d, k))
                     /\ \A j, k \in 1..Len(f) : j < k => f[j].Line < f[k].Line)
    /\ [][\A c \in Calls :
             (/\ ScanStep(c)
              /\ section[c] = "features"
              /\ data[c][lineNo'[c]] \in MarkerLines) =>
                 /\ cfg'[c].Features = AllEntries(c)
                 /\ currentFeature'[c].Line = lineNo'[c]
                 /\ \A key \in DOMAIN currentFeature'[c].Fields :
                        currentFeature'[c].Fields[key].Line = lineNo'[c]
       ]_vars

\* Two markers, the second a bare one followed by its field: two entries,
\* in input order.
C27_Witness ==
    \E c \in Calls :
        /\ data[c] = <<"features:", "  - name: a", "  -", "    name: b">>
        /\ Returned(c)
        /\ Len(cfg[c].Features) = 2
        /\ cfg[c].Features[1].Fields["name"].Value = "a"
        /\ cfg[c].Features[2].Fields["name"].Value = "b"

\* Blank lines and comment lines, indented or not.
SkippedLines == {"", " \t", "# metadata:", "  # - name: b"}

\* d without its line i.
RemoveAt(d, i) == SubSeq(d, 1, i - 1) \o SubSeq(d, i + 1, Len(d))

\* The issues after are the issues before but for their lines, each the
\* same or one greater.
SameButLines(before, after) ==
    /\ Len(after) = Len(before)
    /\ \A k \in 1..Len(before) :
           /\ after[k].Severity = before[k].Severity
           /\ after[k].Message = before[k].Message
           /\ after[k].SuggestedFix = before[k].SuggestedFix
           /\ after[k].Line \in {before[k].Line, before[k].Line + 1}

\* C28: a scan step over a blank line or a comment line changes the line
\* counter only: section, pending entry and parsed config, its mappings,
\* features and section lines, are unchanged; and the issues of an input
\* with such a line are those of the input without it, but for their lines.
C28_BlankAndCommentLinesAreSkipped ==
    /\ [][\A c \in Calls :
             (ScanStep(c) /\ data[c][lineNo'[c]] \in SkippedLines) =>
                 /\ section'[c] = section[c]
                 /\ currentFeature'[c] = currentFeature[c]
                 /\ cfg'[c] = cfg[c]
       ]_vars
    /\ [](\A c \in Calls :
             Returned(c) =>
                 \A i \in 1..Len(data[c]) :
                     data[c][i] \in SkippedLines =>
                         SameButLines(LintBytes(RemoveAt(data[c], i)).issues, issues[c]))

\* An indented comment that would read as a feature entry sits between the
\* features header and an entry: it is skipped, and the entry's warning is
\* reported one line lower than without it.
C28_Witness ==
    \E c \in Calls :
        /\ data[c] = <<"features:", "  # - name: b", "  - name: a">>
        /\ Returned(c)
        /\ Len(cfg[c].Features) = 1
        /\ \E k \in 1..Len(issues[c]) :
               /\ issues[c][k].Message = "feature enabled should be true or false"
               /\ issues[c][k].Line = 3

\* Bare structural lines, with and without indentation and the trailing
\* comma, and the closing brace among them.
StructuralLines == {"{", "  },", "  [,", "]"}

ClosingBraceLines == {"  },"}

\* C29: a scan step over a bare structural line leaves the section, the
\* metadata and settings mappings and the section lines unchanged; a closing
\* brace in the features section with a pending entry that has fields
\* appends that entry and clears it; every other such step leaves pending
\* entry and parsed config unchanged.
C29_StructuralLinesOnlyCloseEntries ==
    [][\A c \in Calls :
          (ScanStep(c) /\ data[c][lineNo'[c]] \in StructuralLines) =>
              /\ section'[c] = section[c]
              /\ IF /\ data[c][lineNo'[c]] \in ClosingBraceLines
                    /\ section[c] = "features"
                    /\ PendingHasFields(c)
                 THEN /\ cfg'[c] = [cfg[c] EXCEPT !.Features = Append(@, currentFeature[c])]
                      /\ currentFeature'[c] = featureEntryZero
                 ELSE /\ cfg'[c] = cfg[c]
                      /\ currentFeature'[c] = currentFeature[c]
    ]_vars

\* A closing brace with a trailing comma has closed the pending entry of
\* line 2 before the end of the input, and the opening bracket after it has
\* changed nothing.
C29_Witness ==
    \E c \in Calls :
        /\ data[c] = <<"features:", "  - name: a", "  },", "  [,">>
        /\ pc[c] = "scan"
        /\ lineNo[c] = 4
        /\ section[c] = "features"
        /\ Len(cfg[c].Features) = 1
        /\ cfg[c].Features[1].Line = 2
        /\ currentFeature[c] = featureEntryZero

\* The issues of the metadata validator among iss.
MetadataIssues(iss) == SelectSeq(iss, LAMBDA i : MessageSection(i.Message) = 1)

\* The message of the warning about a value of env that is not recognized.
IsEnvWarning(message) ==
    HasPrefix(message, "metadata.env value ") /\ HasSuffix(message, " is not recognized")

\* C30: for a non-empty metadata mapping the metadata validator emits the
\* Error "metadata.name is required" iff name is absent or empty, at the
\* field's line if the field exists and else at the metadata header line;
\* the Error "metadata.env is required" iff env is absent or empty; the
\* Warning that the value of env is not recognized iff env is non-empty and
\* not exactly dev, staging or prod; never the env Error and the env Warning
\* together, and at most two issues.
C30_MetadataValidatorIssues ==
    \A c \in Calls :
        (Returned(c) /\ MapLen(cfg[c].Metadata) > 0) =>
            LET md       == cfg[c].Metadata
                iss      == MetadataIssues(issues[c])
                noName   == "name" \notin DOMAIN md \/ md["name"].Value = ""
                noEnv    == "env" \notin DOMAIN md \/ md["env"].Value = ""
                nameErrs == {k \in 1..Len(iss) : iss[k].Message = "metadata.name is required"}
                envErrs  == {k \in 1..Len(iss) : iss[k].Message = "metadata.env is required"}
                envWarns == {k \in 1..Len(iss) : IsEnvWarning(iss[k].Message)}
            IN  /\ nameErrs # {} <=> noName
                /\ \A k \in nameErrs :
                       /\ iss[k].Severity = SeverityError
                       /\ iss[k].Line = IF "name" \in DOMAIN md THEN md["name"].Line
                                        ELSE cfg[c].MetadataLine
                       /\ data[c][cfg[c].MetadataLine] = "metadata:"
                /\ envErrs # {} <=> noEnv
                /\ \A k \in envErrs : iss[k].Severity = SeverityError
                /\ envWarns # {} <=>
                       (~noEnv /\ md["env"].Value \notin {"dev", "staging", "prod"})
                /\ \A k \in envWarns : iss[k].Severity = SeverityWarning
                /\ envErrs = {} \/ envWarns = {}
                /\ Len(iss) <= 2
                /\ 1..Len(iss) = nameErrs \cup envErrs \cup envWarns

\* name is absent and env is Prod, which differs from prod by case alone:
\* the name Error at the header line and the env Warning at the field's
\* line, and nothing else from the metadata validator.
C30_Witness ==
    \E c \in Calls :
        /\ data[c] = <<"metadata:", "  env: Prod">>
        /\ Returned(c)
        /\ MetadataIssues(issues[c]) =
               <<Issue(1, SeverityError, "metadata.name is required",
                       "Set metadata.name to a non-empty identifier, e.g. metadata.name: my-service"),
                 Issue(2, SeverityWarning, "metadata.env value \"Prod\" is not recognized",
                       "Use one of: dev, staging, prod")>>

\* The issues of the settings validator among iss.
SettingsIssues(iss) == SelectSeq(iss, LAMBDA i : MessageSection(i.Message) = 2)

\* The issues of iss that carry message.
WithMessage(iss, message) == SelectSeq(iss, LAMBDA i : i.Message = message)

TimeoutMessages ==
    {"settings.timeout is missing; defaulting to 30",
     "settings.timeout should be a positive integer"}

\* C31: for a non-empty settings mapping the settings validator emits
\* exactly one replicas Error iff replicas is absent ("is required", with
\* its fix) or its text does not denote an integer greater than zero ("must
\* be a positive integer", no fix), and exactly one timeout Warning iff
\* timeout is absent or its text does not denote an integer greater than
\* zero; and issues that are timeout warnings only are fatal in strict mode
\* and not otherwise.
C31_SettingsValidatorIssues ==
    \A c \in Calls :
        (Returned(c) /\ MapLen(cfg[c].Settings) > 0) =>
            LET st       == cfg[c].Settings
                iss      == SettingsIssues(issues[c])
                required == WithMessage(iss, "settings.replicas is required")
                mustBe   == WithMessage(iss, "settings.replicas must be a positive integer")
                missing  == WithMessage(iss, "settings.timeout is missing; defaulting to 30")
                shouldBe == WithMessage(iss, "settings.timeout should be a positive integer")
            IN  /\ Len(required) = IF "replicas" \notin DOMAIN st THEN 1 ELSE 0
                /\ Len(mustBe) = IF /\ "replicas" \in DOMAIN st
                                     /\ ~DenotesPositiveInt(st["replicas"].Value)
                                  THEN 1 ELSE 0
                /\ Len(missing) = IF "timeout" \notin DOMAIN st THEN 1 ELSE 0
                /\ Len(shouldBe) = IF /\ "timeout" \in DOMAIN st
                                       /\ ~DenotesPositiveInt(st["timeout"].Value)
                                    THEN 1 ELSE 0
                /\ Len(iss) = Len(required) + Len(mustBe) + Len(missing) + Len(shouldBe)
                /\ \A k \in 1..Len(required) :
                       /\ required[k].Severity = SeverityError
                       /\ required[k].SuggestedFix = "Add settings.replicas: 1"
                /\ \A k \in 1..Len(mustBe) :
                       /\ mustBe[k].Severity = SeverityError
                       /\ mustBe[k].SuggestedFix = ""
                /\ \A k \in 1..Len(missing) : missing[k].Severity = SeverityWarning
                /\ \A k \in 1..Len(shouldBe) : shouldBe[k].Severity = SeverityWarning
                /\ (/\ issues[c] # <<>>
                    /\ \A k \in 1..Len(issues[c]) : issues[c][k].Message \in TimeoutMessages)
                       => (FatalPolicy(issues[c], TRUE) /\ ~FatalPolicy(issues[c], FALSE))

\* The issues of the features validator among iss, as line, severity and
\* message.
FeaturesIssues(iss) ==
    LET fs == SelectSeq(iss, LAMBDA i : MessageSection(i.Message) = 3)
    IN  [k \in 1..Len(fs) |->
            <<fs[k].Line, fs[k].Severity, fs[k].Message>>]

\* What one entry draws, given whether its enabled text is acceptable.
EntryIssues(e, enabledOk) ==
    (IF "name" \notin DOMAIN e.Fields \/ e.Fields["name"].Value = ""
     THEN <<(<<e.Line, SeverityWarning, "feature entry missing name">>)>>
     ELSE <<>>)
    \o
    (IF "enabled" \notin DOMAIN e.Fields \/ ~enabledOk
     THEN <<(<<e.Line, SeverityWarning, "feature enabled should be true or false">>)>>
     ELSE <<>>)

\* The text is true or false, compared without regard to case.
IsBoolText(text) == ToLower(text) \in {"true", "false"}

\* The text is true or false once the white space around it is removed,
\* compared without regard to case.
IsPaddedBoolText(text) == ToLower(TrimSpace(text)) \in {"true", "false"}

EnabledText(e) == IF "enabled" \in DOMAIN e.Fields THEN e.Fields["enabled"].Value ELSE ""

RECURSIVE EntriesIssuesExact(_)
EntriesIssuesExact(fs) ==
    IF fs = <<>> THEN <<>>
    ELSE EntryIssues(Head(fs), IsBoolText(EnabledText(Head(fs))))
             \o EntriesIssuesExact(Tail(fs))

RECURSIVE EntriesIssuesPadded(_)
EntriesIssuesPadded(fs) ==
    IF fs = <<>> THEN <<>>
    ELSE EntryIssues(Head(fs), IsPaddedBoolText(EnabledText(Head(fs))))
             \o EntriesIssuesPadded(Tail(fs))

\* C32: the issues of the features validator are, entry by entry and each
\* entry by itself, the Warning "feature entry missing name" iff name is
\* absent or empty and the Warning "feature enabled should be true or false"
\* iff enabled is absent or is not true or false compared without regard to
\* case, both at the entry's anchor line, and no issue of severity error.
C32_FeatureIssuesPerEntry ==
    \A c \in Calls :
        Returned(c) => FeaturesIssues(issues[c]) = EntriesIssuesExact(cfg[c].Features)

\* C32, amended: as above, with the enabled text compared after the white
\* space around it is removed: a quoted text with spaces inside the quotes,
\* such as " True ", draws no warning.
C32_FeatureIssuesPerEntryTrimmed ==
    \A c \in Calls :
        Returned(c) => FeaturesIssues(issues[c]) = EntriesIssuesPadded(cfg[c].Features)

\* Two entries: the first with a name and the quoted enabled text " True "
\* draws nothing, the second with an empty name and no enabled draws both
\* warnings at its own line.
C32_Witness ==
    \E c \in Calls :
        /\ data[c] = <<"features:", "  - name: a", "    enabled: \" True \"", "  - name:">>
        /\ Returned(c)
        /\ FeaturesIssues(issues[c]) =
               <<(<<4, SeverityWarning, "feature entry missing name">>),
                 (<<4, SeverityWarning, "feature enabled should be true or false">>)>>

\* The parsed config c with another metadata section, and with another
\* settings section.
WithMetadata(c, md, line) == [c EXCEPT !.Metadata = md, !.MetadataLine = line]

WithSettings(c, st, line) == [c EXCEPT !.Settings = st, !.SettingsLine = line]

\* A metadata mapping and a settings mapping that the validators do not
\* stop at.
SomeMetadata == [k \in {"name"} |-> fieldInfo("awesome", 2)]

SomeSettings == [k \in {"replicas"} |-> fieldInfo("2", 2)]

\* The issues of the features validator among iss.
FeaturesPart(iss) == SelectSeq(iss, LAMBDA i : MessageSection(i.Message) = 3)

\* C33: an empty settings mapping yields exactly one settings issue, the
\* Error "missing settings section" at settingsLine, or at 1 if the header
\* was never seen; and the settings issues and the features issues of a
\* lint are what their validators give for the parsed config whether its
\* metadata section is missing or not, and the features issues whether its
\* settings section is missing or not.
C33_MissingSectionStopsItsValidatorOnly ==
    \A c \in Calls :
        Returned(c) =>
            /\ MapLen(cfg[c].Settings) = 0 =>
                   SettingsIssues(issues[c]) =
                       <<Issue(IF cfg[c].SettingsLine = 0 THEN 1 ELSE cfg[c].SettingsLine,
                               SeverityError, "missing settings section",
                               "Add a 'settings' mapping with 'replicas' and 'timeout'")>>
            /\ \A md \in {<<EmptyMap, 0>>, <<SomeMetadata, 1>>} :
                   /\ SettingsIssues(issues[c]) =
                          validateSettings(WithMetadata(cfg[c], md[1], md[2]))
                   /\ \A st \in {<<EmptyMap, 0>>, <<SomeSettings, 1>>} :
                          FeaturesPart(issues[c]) =
                              validateFeatures(
                                  WithSettings(WithMetadata(cfg[c], md[1], md[2]), st[1], st[2]))

\* Metadata and settings are both missing, the settings header stands on
\* line 3 after a feature entry: the metadata Error at 1, the settings
\* Error at 3 and the warning of the entry at 2.
C33_Witness ==
    \E c \in Calls :
        /\ data[c] = <<"features:", "  - name: a", "settings:">>
        /\ Returned(c)
        /\ MapLen(cfg[c].Metadata) = 0
        /\ SettingsIssues(issues[c]) =
               <<Issue(3, SeverityError, "missing settings section",
                       "Add a 'settings' mapping with 'replicas' and 'timeout'")>>
        /\ Len(FeaturesPart(issues[c])) = 1
        /\ FeaturesPart(issues[c])[1].Line = 2
        /\ Len(issues[c]) = 3

\* A step of call c of LintBytes.
LintStep(c) ==
    \/ ScanLine(c)
    \/ ScanEnd(c)
    \/ ScanTooLong(c)
    \/ ValidateMetadata(c)
    \/ ValidateSettings(c)
    \/ ValidateFeatures(c)

\* What call c has left to do: the lines not yet scanned and the stages
\* after the one it is in.
StagesLeft ==
    [p \in {"scan", "validateMetadata", "validateSettings", "validateFeatures", "done"} |->
        IF p = "scan" THEN 4
        ELSE IF p = "validateMetadata" THEN 3
        ELSE IF p = "validateSettings" THEN 2
        ELSE IF p = "validateFeatures" THEN 1 ELSE 0]

WorkLeft(c) == (Len(data[c]) - lineNo[c]) + StagesLeft[pc[c]]

\* C34: every lint terminates.  A call that has started is scanning, with
\* a next line to take or the end of the input to find, or in a validator,
\* with its step to take, or done; every step reduces the work left, which
\* is never negative.  Each scan step
\* takes the next line and raises the line counter by one, the scan ends
\* with the counter at the number of lines and hands over to the metadata
\* validator, and the three validators run once each, in turn, each
\* appending its issues.
C34_LintTerminates ==
    /\ [](\A c \in Calls :
             pc[c] # "idle" =>
                 /\ pc[c] \in DOMAIN StagesLeft
                 /\ WorkLeft(c) >= 0
                 /\ pc[c] = "scan" => lineNo[c] <= Len(data[c])
                 /\ pc[c] \notin {"scan", "done"} => ENABLED LintStep(c))
    /\ [][\A c \in Calls :
             /\ (pc[c] \in DOMAIN StagesLeft /\ pc'[c] \in DOMAIN StagesLeft
                    /\ <<pc[c], lineNo[c]>> # <<pc'[c], lineNo'[c]>>) =>
                    WorkLeft(c)' < WorkLeft(c)
             /\ (pc[c] = "scan" /\ pc'[c] = "scan") =>
                    (lineNo'[c] = lineNo[c] + 1 /\ lineNo'[c] <= Len(data[c]))
             /\ (pc[c] = "scan" /\ pc'[c] # "scan") =>
                    /\ pc'[c] = "validateMetadata"
                    /\ lineNo'[c] = lineNo[c]
                    /\ lineNo[c] = Len(data[c])
             /\ (pc[c] = "validateMetadata" /\ pc'[c] # pc[c]) =>
                    /\ pc'[c] = "validateSettings"
                    /\ issues'[c] = issues[c] \o validateMetadata(cfg[c])
             /\ (pc[c] = "validateSettings" /\ pc'[c] # pc[c]) =>
                    /\ pc'[c] = "validateFeatures"
                    /\ issues'[c] = issues[c] \o validateSettings(cfg[c])
             /\ (pc[c] = "validateFeatures" /\ pc'[c] # pc[c]) =>
                    /\ pc'[c] = "done"
                    /\ issues'[c] = issues[c] \o validateFeatures(cfg[c])
             /\ pc[c] = "done" => (pc'[c] = "done" /\ issues'[c] = issues[c])
       ]_vars

\* Header lines that carry a whole mapping or list after the colon, and the
\* section each names.
InlineHeader ==
    [l \in {"metadata: {name: awesome, env: prod}", "settings: {replicas: 2, timeout: 30}",
            "features: [{name: a, enabled: true}]", "features: []"} |->
        IF l = "metadata: {name: awesome, env: prod}" THEN "metadata"
        ELSE IF l = "settings: {replicas: 2, timeout: 30}" THEN "settings"
        ELSE "features"]

\* C35: a scan step over a section header line with an inline mapping or
\* list after the colon switches the section and stores nothing: mappings,
\* features and pending entry are unchanged; an input of such lines only
\* yields exactly the Errors "missing metadata section" and "missing
\* settings section".
C35_InlineMappingOnHeaderIsDiscarded ==
    /\ [][\A c \in Calls :
             (ScanStep(c) /\ data[c][lineNo'[c]] \in DOMAIN InlineHeader) =>
                 /\ section'[c] = InlineHeader[data[c][lineNo'[c]]]
                 /\ cfg'[c].Metadata = cfg[c].Metadata
                 /\ cfg'[c].Settings = cfg[c].Settings
                 /\ cfg'[c].Features = cfg[c].Features
                 /\ currentFeature'[c] = currentFeature[c]
       ]_vars
    /\ [](\A c \in Calls :
             (/\ Returned(c)
              /\ \A i \in 1..Len(data[c]) : data[c][i] \in DOMAIN InlineHeader) =>
                 /\ Len(issues[c]) = 2
                 /\ issues[c][1].Message = "missing metadata section"
                 /\ issues[c][1].Severity = SeverityError
                 /\ issues[c][2].Message = "missing settings section"
                 /\ issues[c][2].Severity = SeverityError)

\* The valid config written with one inline mapping per header line has
\* been linted: all three headers were seen, nothing was stored, and the two
\* missing-section errors are the result.
C35_Witness ==
    \E c \in Calls :
        /\ data[c] = <<"metadata: {name: awesome, env: prod}",
                       "settings: {replicas: 2, timeout: 30}",
                       "features: [{name: a, enabled: true}]">>
        /\ Returned(c)
        /\ cfg[c].MetadataLine = 1 /\ cfg[c].SettingsLine = 2 /\ cfg[c].FeaturesLine = 3
        /\ MapLen(cfg[c].Metadata) = 0 /\ MapLen(cfg[c].Settings) = 0
        /\ cfg[c].Features = <<>>
        /\ Len(issues[c]) = 2

\* C36: a scan step taken while the section is none stores no field: the
\* mappings, the features and the pending entry are unchanged; and in every
\* state a non-empty metadata (settings) mapping has its header line
\* recorded, as has a non-empty features sequence or a pending entry.
C36_NothingStoredBeforeFirstHeader ==
    /\ [][\A c \in Calls :
             (ScanStep(c) /\ section[c] = "") =>
                 /\ cfg'[c].Metadata = cfg[c].Metadata
                 /\ cfg'[c].Settings = cfg[c].Settings
                 /\ cfg'[c].Features = cfg[c].Features
                 /\ currentFeature'[c] = currentFeature[c]
       ]_vars
    /\ [](\A c \in Calls :
             Scanning(c) =>
                 /\ MapLen(cfg[c].Metadata) > 0 => cfg[c].MetadataLine >= 1
                 /\ MapLen(cfg[c].Settings) > 0 => cfg[c].SettingsLine >= 1
                 /\ (cfg[c].Features # <<>> \/ currentFeature[c] # featureEntryZero)
                        => cfg[c].FeaturesLine >= 1)

\* Two field lines stand before the first header: neither is stored, and
\* the only field of the parsed config is the one after the header.
C36_Witness ==
    \E c \in Calls :
        /\ data[c] = <<"  name: a", "  replicas: 1", "metadata:", "  name: b">>
        /\ Returned(c)
        /\ cfg[c].Metadata = [k \in {"name"} |-> fieldInfo("b", 4)]
        /\ cfg[c].MetadataLine = 3
        /\ cfg[c].Settings = EmptyMap

\* C37: a header that switches the section away from features neither
\* appends nor clears the pending entry, nor does any line processed while
\* the section is metadata or settings, a closing brace and the header that
\* re-enters features among them; a field line without a marker processed
\* in section features while an entry with fields is pending is added to
\* that entry, replacing an equal key.
C37_PendingEntrySurvivesSectionSwitch ==
    [][\A c \in Calls :
          /\ (/\ ScanStep(c)
              /\ \/ section[c] \in {"metadata", "settings"}
                 \/ /\ section[c] = "features"
                    /\ data[c][lineNo'[c]] \in DOMAIN HeaderLine) =>
                 /\ currentFeature'[c] = currentFeature[c]
                 /\ cfg'[c].Features = cfg[c].Features
          /\ (/\ ScanStep(c)
              /\ section[c] = "features"
              /\ PendingHasFields(c)
              /\ data[c][lineNo'[c]] \in {"    name: b", "    enabled: true"}) =>
                 LET f == FeatureField[data[c][lineNo'[c]]]
                 IN  /\ currentFeature'[c] =
                            [currentFeature[c] EXCEPT
                                !.Fields = MapPut(@, f.key, fieldInfo(f.value, lineNo'[c]))]
                     /\ cfg'[c].Features = cfg[c].Features
    ]_vars

\* The entry of line 2 stays pending through the settings header and the
\* closing brace after it; features is re-entered and the name of line 6
\* replaces the entry's name: one entry, anchored at line 2.
C37_Witness ==
    \E c \in Calls :
        /\ data[c] = <<"features:", "  - name: a", "settings:", "  },", "features:",
                       "    name: b">>
        /\ Returned(c)
        /\ cfg[c].Features =
               <<[Fields |-> [k \in {"name"} |-> fieldInfo("b", 6)], Line |-> 2]>>

\* File f is unreadable, or its lint fails, or its issues are fatal under
\* the strict flag of the run.
FailsFile(f) == ~Lints(f) \/ FatalPolicy(IssuesOf(f), flags.strict)

Chain ==
    <<"withRecovery", "withLogging", "withCORS", "mux", "withAPIKeyAuth", "handleLint",
      "LintBytes">>

\* The API-key check turns request c away.
CheckRejects(c) == apiKeys # {} /\ requestKey(req[c]) \notin apiKeys

\* C39: a request passes the layers in the order recovery, logging, CORS,
\* router, API-key check, lint handler, each at most once; an OPTIONS
\* request that has reached the CORS layer is answered 204 there and reaches
\* neither the router nor the API-key check nor the lint handler; and the
\* lint handler is entered only after the API-key check, and never for a
\* request the check turns away.
C39_ChainOrder ==
    \A c \in Calls :
        /\ Len(hist[c]) <= Len(Chain)
        /\ hist[c] = SubSeq(Chain, 1, Len(hist[c]))
        /\ (req[c] # NoReq /\ req[c].method = "OPTIONS" /\ Entered(c, "withCORS") > 0) =>
               /\ pc[c] = "responded"
               /\ resp[c].status = 204
               /\ Entered(c, "mux") = 0
               /\ Entered(c, "withAPIKeyAuth") = 0
               /\ Entered(c, "handleLint") = 0
        /\ Entered(c, "handleLint") > 0 =>
               (Entered(c, "withAPIKeyAuth") = 1 /\ ~CheckRejects(c))
        /\ (Entered(c, "withAPIKeyAuth") > 0 /\ CheckRejects(c)) =>
               /\ pc[c] = "responded"
               /\ resp[c].status = 401
               /\ Entered(c, "handleLint") = 0

\* An OPTIONS request without a key, sent to a server that has keys, has
\* been answered 204 by the CORS layer, the last layer it entered.
C39_Witness ==
    \E c \in Calls :
        /\ req[c] # NoReq
        /\ req[c].method = "OPTIONS"
        /\ apiKeys # {}
        /\ CheckRejects(c)
        /\ hist[c] = <<"withRecovery", "withLogging", "withCORS">>
        /\ pc[c] = "responded"
        /\ resp[c].status = 204

=============================================================================
